---- MODULE Spec2Model ----
(***************************************************************************)
(* Model of the nefit-go client engine (client/client.go): the single-     *)
(* worker RequestQueue, the Get and Put retry loops, executeGet and        *)
(* executePut with the pending-waiter table, the receive worker's          *)
(* broadcast correlation, the notification buffer and its dispatch worker, *)
(* and the Connect / Close lifecycle.                                      *)
(*                                                                         *)
(* Every goroutine is a process with a program counter; every action is    *)
(* one atomic step of one goroutine (a channel operation, a critical       *)
(* section under one lock, or a select).  A Go select with several ready   *)
(* cases is a nondeterministic choice among them.                          *)
(***************************************************************************)
EXTENDS Integers, Sequences, FiniteSets, TLC

\* ------------------------------------------------------------------ bounds
\* Number of goroutines that call RequestQueue.Submit directly.
NSubmitters == 3
\* Number of goroutines that call RequestQueue.Close directly.
NClosers == 2
\* Capacity of requestCh (100 in the source, scaled down).
QueueCap == 2

\* Number of goroutines that call Client.Get.
NGetters == 1
\* Number of goroutines that call Client.Put.
NPutters == 1
\* Largest Config.MaxRetries a client is built with.
MaxRetriesBound == 1
\* Capacity of pushNotificationChan (100 in the source, scaled down).
PushCap == 1
\* Handlers passed to Subscribe, each by one caller.
NHandlers == 2
\* Number of unsolicited messages the device sends.
MaxPush == 2

Submitters == 1..NSubmitters
Getters == (NSubmitters + 1)..(NSubmitters + NGetters)
Putters == (NSubmitters + NGetters + 1)..(NSubmitters + NGetters + NPutters)
\* Callers of Client.Get and Client.Put.
Callers == Getters \cup Putters
Procs == Submitters \cup Callers
\* Callers of RequestQueue.Close: goroutines calling it directly, and Client.Close.
ClientCloser == NClosers + 1
Closers == 1..NClosers
AllClosers == 1..ClientCloser
\* DefaultMaxRetries: what WithDefaults puts in place of an unset MaxRetries.
DefaultMaxRetries == 15
\* Attempts of one call that are followed when the client has the defaults.
MaxAttempts == 5
\* Items one Get or Put call may submit: one per attempt.
AttemptSlots == IF MaxRetriesBound + 1 > MaxAttempts THEN MaxRetriesBound + 1 ELSE MaxAttempts
MaxItems == NSubmitters + (NGetters + NPutters) * AttemptSlots
Ids == 1..MaxItems
Handlers == 1..NHandlers
\* Config.MaxRetries after WithDefaults (which replaces 0): any other integer.
MaxRetriesValues == {m \in (-1)..MaxRetriesBound : m # 0}
\* Config.RetryTimeout after WithDefaults, in seconds: the default and a larger one.
RetryTimeoutValues == {2, 40}
\* No message (an empty one-slot channel).
NoMsg == [type |-> "none", origin |-> 0, resp |-> "none", seq |-> 0]

\* Values of ctx.Err(): nil while the context is live.
CtxErrs == {"deadline", "canceled"}

VARIABLES
    requestCh,  \* RequestQueue.requestCh: buffered channel, sequence of item ids
    stopCh,     \* RequestQueue.stopCh: TRUE once closed
    once,       \* RequestQueue.once: "fresh", "running" (f executing), "done"
    wpc,        \* RequestQueue.worker position: "select", "exec", "deliver", "exited"
    wcur,       \* the requestItem the worker holds (0 = none)
    wres,       \* value/err returned by req.execute()
    ictx,       \* requestItem.ctx per item: "none" (not created), "live", or ctx.Err()
    ikind,      \* requestItem.execute per item: "work" (a plain function), "get"
    resultCh,   \* requestItem.resultCh per item: "empty" or the requestResult
    pc,         \* position of each Submit caller
    cur,        \* the item of each caller's Submit call
    ret,        \* what Submit returned to each caller
    qcpc,       \* position of each RequestQueue.Close caller
    \* Client
    maxRetries,      \* Client.config.MaxRetries
    retryTimeout,    \* Client.config.RetryTimeout, in seconds
    backoff,         \* Put's backoff per caller, in seconds
    stated,          \* the attempt count formatted into the error Get/Put returned
    xmppClient,      \* Client.xmppClient: "nil" or "set"
    sessClosed,      \* TRUE once the transport session's Close() was called
    ctxCancelled,    \* Client.ctx is cancelled
    pushNotificationChan, \* buffered channel of notifications
    pushClosed,      \* pushNotificationChan is closed
    pendingRequests, \* keys of Client.pendingRequests
    pendingErrors,   \* keys of Client.pendingErrors
    responseCh,      \* executeGet's responseCh per item: NoMsg or a response
    errorCh,         \* executeGet's errorCh per item: TRUE when it holds an error
    wire,            \* requests the device has received and not answered
    inbound,         \* stanzas sent by the device, in order, not yet returned by Recv
    npush,           \* unsolicited messages sent so far
    rpc,             \* receiveWorker position
    rmsg,            \* the parsed response the receive worker holds
    ppc,             \* pingWorker position
    nwpc,            \* pushNotificationWorker position
    cpc,             \* Client.Close position
    attempt,         \* Get's loop variable per caller
    lastErr,         \* Get's lastErr per caller
    outer,           \* the ctx passed to Get: "live" or its Err()
    gerr,            \* the error Get returned
    \* history (ghost) variables of the client
    errs,            \* per caller: what each Submit of its Get returned, in order
    outerSeen,       \* per caller: ctx.Err() as Get read it after each Submit
    consumedFrom,    \* per item: origin of the response executeGet consumed (-1 none)
    panicSend,       \* TRUE once a send hit the closed pushNotificationChan
    usedClosed,      \* TRUE once Send/SendPresence was called on a closed session
    waits,           \* per caller: the backoff waits Put completed, in order
    enqueued,        \* seq numbers of the notifications accepted into the channel
    dispatched,      \* seq numbers of the notifications dispatched, in order
    eventHandlers,   \* Client.eventHandlers: the subscribed handlers, in order
    eventHandlersMu, \* Client.eventHandlersMu: "free", "locked" or "rlocked"
    spc,             \* position of each Subscribe caller
    handlerRunning,  \* handler goroutines started and not returned: [seq, h]
    handlerReturned, \* handler goroutines that returned
    \* crypto.Encryptor and the protocol codec (pure functions and their inputs)
    codecPc,         \* which codec call has been made last ("idle" before any)
    serialNumber,    \* NewEncryptor's serialNumber argument
    accessKey,       \* NewEncryptor's accessKey argument
    password,        \* NewEncryptor's password argument
    encKey,          \* Encryptor.key
    plaintext,       \* the data passed to Encrypt, a sequence of bytes
    ciphertext,      \* what Encrypt returned
    decrypted,       \* what DecryptAndStrip returned
    httpText,        \* the text passed to buildXMPPMessage or to ParseHTTPResponse
    xmlData,         \* what buildXMPPMessage returned
    extracted,       \* what ExtractBody, or ParseHTTPResponse, returned
    \* history (ghost) variables
    istate,     \* per item: "new", "queued", "executing", "finished"
    accepted,   \* ids in the order they were accepted into requestCh
    started,    \* ids in the order the worker started executing them
    closePanic, \* TRUE once close() hit an already closed stopCh
    lateCall,   \* items whose Submit was called after a Close had returned
    execAtClose \* TRUE once Close was called while an item was executing

chanVars == <<requestCh, stopCh, once>>
workerVars == <<wpc, wcur, wres>>
itemVars == <<ictx, ikind, resultCh>>
callVars == <<pc, cur, ret>>
ghostVars == <<istate, accepted, started, closePanic, lateCall, execAtClose>>
connVars == <<xmppClient, sessClosed, ctxCancelled>>
pushVars == <<pushNotificationChan, pushClosed>>
pendVars == <<pendingRequests, pendingErrors, responseCh, errorCh>>
netVars == <<wire, inbound, npush>>
bgVars == <<rpc, rmsg, ppc, nwpc>>
getVars == <<attempt, lastErr, outer, gerr, errs, outerSeen>>
cghostVars == <<consumedFrom, panicSend, usedClosed>>
putVars == <<retryTimeout, backoff, stated, waits>>
notifVars == <<enqueued, dispatched>>
codecVars == <<codecPc, serialNumber, accessKey, password, encKey, plaintext, ciphertext,
               decrypted, httpText, xmlData, extracted>>
subVars == <<eventHandlers, eventHandlersMu, spc, handlerRunning, handlerReturned>>
clientVars == <<maxRetries, codecVars, subVars, putVars, notifVars, connVars, pushVars, pendVars, netVars, bgVars, cpc,
                getVars, cghostVars>>

vars == <<chanVars, workerVars, itemVars, callVars, qcpc, ghostVars, clientVars>>

\* ------------------------------------------------ NewRequestQueue
InitQueue ==
    /\ requestCh = <<>>
    /\ stopCh = FALSE
    /\ once = "fresh"
    /\ wpc = "select"
    /\ wcur = 0
    /\ wres = "none"
    /\ ictx = [i \in Ids |-> "none"]
    /\ ikind = [i \in Ids |-> "none"]
    /\ resultCh = [i \in Ids |-> "empty"]
    /\ pc = [p \in Procs |-> "idle"]
    /\ cur = [p \in Procs |-> 0]
    /\ ret = [p \in Procs |-> "none"]
    /\ qcpc = [c \in AllClosers |-> "idle"]
    /\ istate = [i \in Ids |-> "new"]
    /\ accepted = <<>>
    /\ started = <<>>
    /\ closePanic = FALSE
    /\ lateCall = {}
    /\ execAtClose = FALSE

\* ------------------------------------------------ NewClient
\* Config.WithDefaults on MaxRetries: only the zero value is replaced.
WithDefaults(m) == IF m = 0 THEN DefaultMaxRetries ELSE m

\* The fields NewClient fills in, other than config.MaxRetries.
InitClientState ==
    /\ retryTimeout \in RetryTimeoutValues
    /\ backoff = [g \in Callers |-> 0]
    /\ stated = [g \in Callers |-> 0]
    /\ waits = [g \in Callers |-> <<>>]
    /\ enqueued = <<>>
    /\ dispatched = <<>>
    /\ xmppClient = "nil"
    /\ sessClosed = FALSE
    /\ ctxCancelled = FALSE
    /\ pushNotificationChan = <<>>
    /\ pushClosed = FALSE
    /\ pendingRequests = {}
    /\ pendingErrors = {}
    /\ responseCh = [i \in Ids |-> NoMsg]
    /\ errorCh = [i \in Ids |-> FALSE]
    /\ wire = {}
    /\ inbound = <<>>
    /\ npush = 0
    /\ rpc = "off"
    /\ rmsg = NoMsg
    /\ ppc = "off"
    /\ nwpc = "off"
    /\ cpc = "idle"
    /\ attempt = [g \in Callers |-> 0]
    /\ lastErr = [g \in Callers |-> "nil"]
    /\ outer = [g \in Callers |-> "live"]
    /\ gerr = [g \in Callers |-> "none"]
    /\ errs = [g \in Callers |-> <<>>]
    /\ outerSeen = [g \in Callers |-> <<>>]
    /\ consumedFrom = [i \in Ids |-> -1]
    /\ panicSend = FALSE
    /\ usedClosed = FALSE
    /\ eventHandlers = <<>>
    /\ eventHandlersMu = "free"
    /\ spc = [h \in Handlers |-> "idle"]
    /\ handlerRunning = {}
    /\ handlerReturned = {}

InitClient ==
    /\ maxRetries \in MaxRetriesValues
    /\ InitClientState

\* No codec call has been made: the inputs and results are empty.
InitCodec ==
    /\ codecPc = "idle"
    /\ serialNumber = ""
    /\ accessKey = ""
    /\ password = ""
    /\ encKey = <<>>
    /\ plaintext = <<>>
    /\ ciphertext = [wellFormed |-> TRUE, blocks |-> <<>>, tail |-> <<>>]
    /\ decrypted = [err |-> "nil", text |-> <<>>]
    /\ httpText = <<>>
    /\ xmlData = [from |-> <<>>, to |-> <<>>, body |-> <<>>]
    /\ extracted = [err |-> "nil", text |-> <<>>]

Init == InitQueue /\ InitClient /\ InitCodec

\* ------------------------------------------------ RequestQueue.Submit
\* resultCh := make(chan requestResult, 1); req := requestItem{ctx, fn, resultCh}
\* The item is named after its caller and the caller's attempt number k (0-based).
ItemOf(p, k) ==
    IF p \in Submitters THEN p
    ELSE NSubmitters + (p - NSubmitters - 1) * AttemptSlots + k + 1

\* Number of Submit calls a Get has made so far.
Submitted(g) == IF cur[g] = 0 THEN 0 ELSE cur[g] - ItemOf(g, 0) + 1

NewItem(p, kind, id, ctx) ==
    /\ cur' = [cur EXCEPT ![p] = id]
    /\ ictx' = [ictx EXCEPT ![id] = ctx]
    /\ ikind' = [ikind EXCEPT ![id] = kind]
    /\ lateCall' = IF \E c \in AllClosers : qcpc[c] = "returned"
                   THEN lateCall \cup {id} ELSE lateCall
    /\ UNCHANGED resultCh

\* A goroutine calls q.Submit(ctx, fn) with a plain terminating fn.
SubmitCall(p) ==
    /\ pc[p] = "idle"
    /\ NewItem(p, "work", ItemOf(p, 0), "live")
    /\ pc' = [pc EXCEPT ![p] = "enq"]
    /\ UNCHANGED <<chanVars, workerVars, ret, qcpc, istate, accepted, started,
                   closePanic, execAtClose, clientVars>>

\* first select, case q.requestCh <- req
SubmitEnqueue(p) ==
    /\ pc[p] = "enq"
    /\ Len(requestCh) < QueueCap
    /\ requestCh' = Append(requestCh, cur[p])
    /\ accepted' = Append(accepted, cur[p])
    /\ istate' = [istate EXCEPT ![cur[p]] = "queued"]
    /\ pc' = [pc EXCEPT ![p] = "wait"]
    /\ UNCHANGED <<stopCh, once, workerVars, itemVars, cur, ret, qcpc, started,
                   closePanic, lateCall, execAtClose, clientVars>>

\* Mutant: the intake select has no ctx.Done() case.
SubmitCtxDone1Missing(p) ==
    /\ FALSE
    /\ UNCHANGED vars

\* first select, case <-ctx.Done(): return nil, ctx.Err()
SubmitCtxDone1(p) ==
    /\ pc[p] = "enq"
    /\ ictx[cur[p]] \in CtxErrs
    /\ ret' = [ret EXCEPT ![p] = ictx[cur[p]]]
    /\ pc' = [pc EXCEPT ![p] = "ret"]
    /\ UNCHANGED <<chanVars, workerVars, itemVars, cur, qcpc, ghostVars, clientVars>>

\* first select, case <-q.stopCh: return nil, "queue is stopped"
SubmitStopped(p) ==
    /\ pc[p] = "enq"
    /\ stopCh
    /\ ret' = [ret EXCEPT ![p] = "stopped"]
    /\ pc' = [pc EXCEPT ![p] = "ret"]
    /\ UNCHANGED <<chanVars, workerVars, itemVars, cur, qcpc, ghostVars, clientVars>>

\* second select, case result := <-resultCh
SubmitResult(p) ==
    /\ pc[p] = "wait"
    /\ resultCh[cur[p]] # "empty"
    /\ ret' = [ret EXCEPT ![p] = resultCh[cur[p]]]
    /\ resultCh' = [resultCh EXCEPT ![cur[p]] = "empty"]
    /\ pc' = [pc EXCEPT ![p] = "ret"]
    /\ UNCHANGED <<chanVars, workerVars, ictx, ikind, cur, qcpc, ghostVars,
                   clientVars>>

\* second select, case <-ctx.Done(): return nil, ctx.Err()
SubmitCtxDone2(p) ==
    /\ pc[p] = "wait"
    /\ ictx[cur[p]] \in CtxErrs
    /\ ret' = [ret EXCEPT ![p] = ictx[cur[p]]]
    /\ pc' = [pc EXCEPT ![p] = "ret"]
    /\ UNCHANGED <<chanVars, workerVars, itemVars, cur, qcpc, ghostVars, clientVars>>

Submit(p) ==
    \/ SubmitEnqueue(p)
    \/ SubmitCtxDone1(p)
    \/ SubmitStopped(p)
    \/ SubmitResult(p)
    \/ SubmitCtxDone2(p)

\* Submit while nobody shuts the queue down: stopCh stays open, so the stopCh
\* case of the first select is never ready.
submitRunning(p) ==
    \/ SubmitEnqueue(p)
    \/ SubmitCtxDone1(p)
    \/ SubmitResult(p)
    \/ SubmitCtxDone2(p)

\* The caller's context is cancelled, or its deadline passes, at any moment.
CtxDone(i, err) ==
    /\ ictx[i] = "live"
    /\ ictx' = [ictx EXCEPT ![i] = err]
    /\ UNCHANGED <<chanVars, workerVars, ikind, resultCh, callVars, qcpc,
                   ghostVars, clientVars>>

\* ------------------------------------------------ RequestQueue.worker
\* req.execute(): where the worker goes for each kind of function submitted
ExecStartSkipsRegister(kind) ==
    CASE kind = "work" -> "exec"
      [] kind = "get" -> "send"
      [] OTHER -> "psend"
ExecStart(kind) ==
    CASE kind = "work" -> "exec"
      [] kind = "get" -> "register"
      [] OTHER -> "pregister"

\* select, case <-q.stopCh: return (defer q.wg.Done())
WorkerStop ==
    /\ wpc = "select"
    /\ stopCh
    /\ wpc' = "exited"
    /\ UNCHANGED <<chanVars, wcur, wres, itemVars, callVars, qcpc, ghostVars,
                   clientVars>>

\* Mutant: the next item is taken while the previous one is still executing
\* (as a second worker goroutine would).
WorkerDequeueConcurrent ==
    /\ wpc \in {"select", "exec", "register", "send", "sending", "await", "cleanup"}
    /\ requestCh # <<>>
    /\ wcur' = Head(requestCh)
    /\ requestCh' = Tail(requestCh)
    /\ wpc' = ExecStart(ikind[Head(requestCh)])
    /\ wres' = "none"
    /\ started' = Append(started, Head(requestCh))
    /\ istate' = [istate EXCEPT ![Head(requestCh)] = "executing"]
    /\ UNCHANGED <<stopCh, once, itemVars, callVars, qcpc, accepted, closePanic,
                   lateCall, execAtClose, clientVars>>

\* Mutant: the worker takes the newest buffered item instead of the oldest.
WorkerDequeueNewest ==
    /\ wpc = "select"
    /\ requestCh # <<>>
    /\ wcur' = requestCh[Len(requestCh)]
    /\ requestCh' = SubSeq(requestCh, 1, Len(requestCh) - 1)
    /\ wpc' = ExecStart(ikind[requestCh[Len(requestCh)]])
    /\ wres' = "none"
    /\ started' = Append(started, requestCh[Len(requestCh)])
    /\ istate' = [istate EXCEPT ![requestCh[Len(requestCh)]] = "executing"]
    /\ UNCHANGED <<stopCh, once, itemVars, callVars, qcpc, accepted, closePanic,
                   lateCall, execAtClose, clientVars>>

\* Mutant: an item whose context is done is taken out and not executed.
WorkerDequeueSkipsDone ==
    /\ wpc = "select"
    /\ requestCh # <<>>
    /\ requestCh' = Tail(requestCh)
    /\ IF ictx[Head(requestCh)] \in CtxErrs
       THEN /\ istate' = [istate EXCEPT ![Head(requestCh)] = "finished"]
            /\ UNCHANGED <<wcur, wpc, started>>
       ELSE /\ wcur' = Head(requestCh)
            /\ wpc' = ExecStart(ikind[Head(requestCh)])
            /\ started' = Append(started, Head(requestCh))
            /\ istate' = [istate EXCEPT ![Head(requestCh)] = "executing"]
    /\ wres' = "none"
    /\ UNCHANGED <<stopCh, once, itemVars, callVars, qcpc, accepted, closePanic,
                   lateCall, execAtClose, clientVars>>

\* select, case req := <-q.requestCh; req.execute() begins
WorkerDequeue ==
    /\ wpc = "select"
    /\ requestCh # <<>>
    /\ wcur' = Head(requestCh)
    /\ requestCh' = Tail(requestCh)
    /\ wpc' = ExecStart(ikind[Head(requestCh)])
    /\ wres' = "none"
    /\ started' = Append(started, Head(requestCh))
    /\ istate' = [istate EXCEPT ![Head(requestCh)] = "executing"]
    /\ UNCHANGED <<stopCh, once, itemVars, callVars, qcpc, accepted, closePanic,
                   lateCall, execAtClose, clientVars>>

\* req.execute() returns (a plain work function)
WorkerExecuteWork ==
    /\ wpc = "exec"
    /\ ikind[wcur] = "work"
    /\ wres' = "ok"
    /\ wpc' = "deliver"
    /\ istate' = [istate EXCEPT ![wcur] = "finished"]
    /\ UNCHANGED <<chanVars, wcur, itemVars, callVars, qcpc, accepted, started,
                   closePanic, lateCall, execAtClose, clientVars>>

\* Mutant: the worker never sends the result.
WorkerDeliverLost ==
    /\ wpc = "deliver"
    /\ wpc' = "select"
    /\ wcur' = 0
    /\ wres' = "none"
    /\ UNCHANGED <<chanVars, itemVars, callVars, qcpc, ghostVars, clientVars>>

\* inner select, case req.resultCh <- requestResult{...}
WorkerDeliver ==
    /\ wpc = "deliver"
    /\ resultCh[wcur] = "empty"
    /\ resultCh' = [resultCh EXCEPT ![wcur] = wres]
    /\ wpc' = "select"
    /\ wcur' = 0
    /\ wres' = "none"
    /\ UNCHANGED <<chanVars, ictx, ikind, callVars, qcpc, ghostVars,
                   clientVars>>

\* inner select, case <-req.ctx.Done(): the result is dropped
WorkerDiscardExits ==
    /\ wpc = "deliver"
    /\ ictx[wcur] \in CtxErrs
    /\ wpc' = "exited"
    /\ wcur' = 0
    /\ wres' = "none"
    /\ UNCHANGED <<chanVars, itemVars, callVars, qcpc, ghostVars, clientVars>>
WorkerDiscard ==
    /\ wpc = "deliver"
    /\ ictx[wcur] \in CtxErrs
    /\ wpc' = "select"
    /\ wcur' = 0
    /\ wres' = "none"
    /\ UNCHANGED <<chanVars, itemVars, callVars, qcpc, ghostVars, clientVars>>

\* the worker loop around req.execute()
workerLoop ==
    \/ WorkerStop
    \/ WorkerDequeue
    \/ WorkerDeliver
    \/ WorkerDiscard

worker == workerLoop \/ WorkerExecuteWork

\* ------------------------------------------------ RequestQueue.Close
\* q.once.Do(f): the first caller runs f, whose first statement is close(q.stopCh);
\* a caller that finds the Once done returns at once; a caller that finds f
\* running blocks on the Once's mutex until f has returned.
CloseOnce(c) ==
    /\ qcpc[c] = "idle"
    /\ once # "running"
    /\ IF once = "fresh"
       THEN /\ once' = "running"
            /\ stopCh' = TRUE
            /\ closePanic' = (closePanic \/ stopCh)
            /\ execAtClose' = (execAtClose \/ wpc = "exec")
            /\ qcpc' = [qcpc EXCEPT ![c] = "wait"]
       ELSE /\ qcpc' = [qcpc EXCEPT ![c] = "returned"]
            /\ UNCHANGED <<once, stopCh, closePanic, execAtClose>>
    /\ UNCHANGED <<requestCh, workerVars, itemVars, callVars, istate, accepted,
                   started, lateCall, clientVars>>

\* Mutant: Close does not wait for the worker.
CloseNoWait(c) ==
    /\ qcpc[c] = "wait"
    /\ once' = "done"
    /\ qcpc' = [qcpc EXCEPT ![c] = "returned"]
    /\ UNCHANGED <<requestCh, stopCh, workerVars, itemVars, callVars, ghostVars,
                   clientVars>>

\* q.wg.Wait() inside f, then f and Do return
CloseWait(c) ==
    /\ qcpc[c] = "wait"
    /\ wpc = "exited"
    /\ once' = "done"
    /\ qcpc' = [qcpc EXCEPT ![c] = "returned"]
    /\ UNCHANGED <<requestCh, stopCh, workerVars, itemVars, callVars, ghostVars,
                   clientVars>>

Close(c) == CloseOnce(c) \/ CloseWait(c)

\* ================================================================ messages
\* The texts the device sends, by what the client's parsing makes of them:
\*   "ok"          status 200, body is base64 of 16 bytes
\*   "badbody"     status 200, body is not valid base64
\*   "badlen"      status 200, body is base64 of 8 bytes
\*   "http"        status 404, reason "Not Found"
\*   "httptimeout" status 504, reason "Gateway timeout"
\*   "garbage"     a text without a numeric status code
Bodies == {"ok", "badbody", "badlen"}
Rejections == {"http", "httptimeout"}
Responses == Bodies \cup Rejections

\* ParseHTTPResponse: the status line must have a numeric second field
ParseHTTPResponse(text) == IF text = "garbage" THEN "error" ELSE "ok"

\* HTTPResponse.StatusCode
StatusCode(resp) ==
    CASE resp \in Bodies -> 200
      [] resp = "http" -> 404
      [] resp = "httptimeout" -> 504

\* len(ciphertext) after base64.StdEncoding.DecodeString; -1: the decoding fails
DecodedLen(resp) ==
    CASE resp = "ok" -> 16
      [] resp = "badlen" -> 8
      [] OTHER -> -1

\* Encryptor.Decrypt: a base64 error is returned; len % 8 zero bytes are appended
\* when len % 8 # 0; the block loop slices [i:i+16] of a buffer of that length,
\* which panics unless the length is a multiple of 16
Decrypt(resp) ==
    LET n == DecodedLen(resp)
        padded == IF n % 8 # 0 THEN n + (n % 8) ELSE n
    IN  IF n < 0 THEN "error"
        ELSE IF padded % 16 # 0 THEN "panic"
        ELSE "ok"

\* strings.Contains(err.Error(), "timeout") for the errors Submit returns:
\* "context deadline exceeded", "context canceled", "queue is stopped",
\* "HTTP error 404: Not Found", "HTTP error 504: Gateway timeout", ...
ContainsTimeout(err) == err = "httptimeout"

\* ================================================================ Client
queueVars == <<chanVars, workerVars, itemVars, callVars, qcpc, ghostVars>>

\* ------------------------------------------------ Client.Connect
\* options.NewClient() succeeded: the handle of the new session is stored and the
\* three workers are started.  Connect is called on a client whose workers are
\* not running: before any Close, or after Close has returned.
Connect ==
    /\ \/ cpc = "idle"
       \/ cpc = "waited" /\ qcpc[ClientCloser] = "returned"
    /\ rpc \in {"off", "exited"}
    /\ ppc \in {"off", "exited"}
    /\ nwpc \in {"off", "exited"}
    /\ xmppClient' = "set"
    /\ sessClosed' = FALSE
    /\ inbound' = <<>>
    /\ wire' = {}
    /\ rpc' = "loop"
    /\ ppc' = "run"
    /\ nwpc' = "run"
    /\ UNCHANGED <<queueVars, maxRetries, codecVars, subVars, putVars, notifVars, ctxCancelled, pushVars,
                   pendVars, npush, rmsg, cpc, getVars, cghostVars>>

\* Mutant: IsConnected reports a connection whatever the handle is.
IsConnectedAlways == TRUE

\* Client.IsConnected: c.xmppClient != nil, under the read lock
IsConnected == xmppClient # "nil"

\* ------------------------------------------------ Client.Get
\* if !c.IsConnected() { return nil, "not connected" }
GetCall(g) ==
    /\ pc[g] = "idle"
    /\ IF ~IsConnected
       THEN /\ pc' = [pc EXCEPT ![g] = "done"]
            /\ gerr' = [gerr EXCEPT ![g] = <<"not connected", "nil">>]
       ELSE /\ pc' = [pc EXCEPT ![g] = "loop"]
            /\ UNCHANGED gerr
    /\ UNCHANGED <<chanVars, workerVars, itemVars, cur, ret, qcpc, ghostVars,
                   maxRetries, codecVars, subVars, putVars, notifVars, connVars, pushVars, pendVars, netVars, bgVars, cpc,
                   attempt, lastErr, outer, errs, outerSeen, cghostVars>>

\* Mutant: the loop condition is attempt < MaxRetries.
LoopContinuesOffByOne(g) == attempt[g] < maxRetries

\* for attempt := 0; attempt <= c.config.MaxRetries; attempt++
LoopContinues(g) == attempt[g] <= maxRetries

\* loop head with attempt <= MaxRetries: reqCtx := WithTimeout(ctx, RetryTimeout)
\* and c.queue.Submit(reqCtx, ...) is called
GetAttempt(g) ==
    /\ pc[g] = "loop"
    /\ LoopContinues(g)
    /\ NewItem(g, "get", ItemOf(g, attempt[g]), outer[g])
    /\ pc' = [pc EXCEPT ![g] = "enq"]
    /\ UNCHANGED <<chanVars, workerVars, ret, qcpc, istate, accepted, started,
                   closePanic, execAtClose, clientVars>>

\* loop head with attempt > MaxRetries: return "GET request failed ...: %w", lastErr
GetExhausted(g) ==
    /\ pc[g] = "loop"
    /\ ~LoopContinues(g)
    /\ pc' = [pc EXCEPT ![g] = "done"]
    /\ gerr' = [gerr EXCEPT ![g] = <<"failed", lastErr[g]>>]
    /\ stated' = [stated EXCEPT ![g] = maxRetries]
    /\ UNCHANGED <<chanVars, workerVars, itemVars, cur, ret, qcpc, ghostVars,
                   maxRetries, codecVars, subVars, retryTimeout, backoff, waits, notifVars, connVars, pushVars, pendVars, netVars, bgVars, cpc,
                   attempt, lastErr, outer, errs, outerSeen, cghostVars>>

\* Mutant: every failure is retried while the caller's context is live.
GetAfterSubmitRetryAll(g) ==
    /\ pc[g] = "ret"
    /\ ictx' = [ictx EXCEPT ![cur[g]] = IF @ = "live" THEN "canceled" ELSE @]
    /\ errs' = [errs EXCEPT ![g] = Append(@, ret[g])]
    /\ outerSeen' = [outerSeen EXCEPT ![g] = Append(@, outer[g])]
    /\ IF ret[g] = "ok"
       THEN /\ pc' = [pc EXCEPT ![g] = "done"]
            /\ gerr' = [gerr EXCEPT ![g] = <<"nil", "nil">>]
            /\ UNCHANGED <<lastErr, attempt, stated>>
       ELSE /\ lastErr' = [lastErr EXCEPT ![g] = ret[g]]
            /\ IF outer[g] # "live"
               THEN /\ pc' = [pc EXCEPT ![g] = "done"]
                    /\ gerr' = [gerr EXCEPT ![g] = <<"failed", ret[g]>>]
                    /\ stated' = [stated EXCEPT ![g] = maxRetries]
                    /\ UNCHANGED attempt
               ELSE /\ pc' = [pc EXCEPT ![g] = "loop"]
                    /\ attempt' = [attempt EXCEPT ![g] = @ + 1]
                    /\ UNCHANGED <<gerr, stated>>
    /\ UNCHANGED <<chanVars, workerVars, ikind, resultCh, cur, ret, qcpc, ghostVars,
                   maxRetries, codecVars, subVars, retryTimeout, backoff, waits, notifVars, connVars, pushVars, pendVars, netVars, bgVars, cpc,
                   outer, cghostVars>>

\* Submit returned: cancel(); return on success; lastErr = err; break when
\* ctx.Err() != nil; break when err != context.DeadlineExceeded; else attempt++
GetAfterSubmit(g) ==
    /\ pc[g] = "ret"
    /\ ictx' = [ictx EXCEPT ![cur[g]] = IF @ = "live" THEN "canceled" ELSE @]
    /\ errs' = [errs EXCEPT ![g] = Append(@, ret[g])]
    /\ outerSeen' = [outerSeen EXCEPT ![g] = Append(@, outer[g])]
    /\ IF ret[g] = "ok"
       THEN /\ pc' = [pc EXCEPT ![g] = "done"]
            /\ gerr' = [gerr EXCEPT ![g] = <<"nil", "nil">>]
            /\ UNCHANGED <<lastErr, attempt, stated>>
       ELSE /\ lastErr' = [lastErr EXCEPT ![g] = ret[g]]
            /\ IF outer[g] # "live" \/ ret[g] # "deadline"
               THEN /\ pc' = [pc EXCEPT ![g] = "done"]
                    /\ gerr' = [gerr EXCEPT ![g] = <<"failed", ret[g]>>]
                    /\ stated' = [stated EXCEPT ![g] = maxRetries]
                    /\ UNCHANGED attempt
               ELSE /\ pc' = [pc EXCEPT ![g] = "loop"]
                    /\ attempt' = [attempt EXCEPT ![g] = @ + 1]
                    /\ UNCHANGED <<gerr, stated>>
    /\ UNCHANGED <<chanVars, workerVars, ikind, resultCh, cur, ret, qcpc, ghostVars,
                   maxRetries, codecVars, subVars, retryTimeout, backoff, waits, notifVars, connVars, pushVars, pendVars, netVars, bgVars, cpc,
                   outer, cghostVars>>

Get(g) ==
    \/ GetCall(g)
    \/ GetAttempt(g)
    \/ GetExhausted(g)
    \/ Submit(g)
    \/ GetAfterSubmit(g)

\* The context the caller passed to Get is cancelled or reaches its deadline;
\* the attempt context derived from it ends with the same error.
OuterDone(g, err) ==
    /\ outer[g] = "live"
    /\ pc[g] # "done"
    /\ outer' = [outer EXCEPT ![g] = err]
    /\ ictx' = IF cur[g] # 0 /\ ictx[cur[g]] = "live"
               THEN [ictx EXCEPT ![cur[g]] = err] ELSE ictx
    /\ UNCHANGED <<chanVars, workerVars, ikind, resultCh, callVars, qcpc, ghostVars,
                   maxRetries, codecVars, subVars, putVars, notifVars, connVars, pushVars, pendVars, netVars, bgVars, cpc,
                   attempt, lastErr, gerr, errs, outerSeen, cghostVars>>

\* The RetryTimeout of an attempt's context passes.
AttemptTimeout(i) ==
    /\ ikind[i] \in {"get", "put"}
    /\ CtxDone(i, "deadline")

\* ------------------------------------------------ Client.executeGet
\* (run by the queue worker as req.execute())
workerRest == <<chanVars, wcur, itemVars, callVars, qcpc, accepted, started,
                closePanic, lateCall, execAtClose>>

\* c.pendingRequests[reqID] = responseCh; c.pendingErrors[reqID] = errorCh
ExecRegisterResponseOnly ==
    /\ wpc = "register"
    /\ pendingRequests' = pendingRequests \cup {wcur}
    /\ wpc' = "send"
    /\ UNCHANGED <<workerRest, wres, istate, maxRetries, codecVars, subVars, putVars, notifVars, connVars, pushVars,
                   pendingErrors, responseCh, errorCh, netVars, bgVars, cpc, getVars, cghostVars>>
ExecRegister ==
    /\ wpc = "register"
    /\ pendingRequests' = pendingRequests \cup {wcur}
    /\ pendingErrors' = pendingErrors \cup {wcur}
    /\ wpc' = "send"
    /\ UNCHANGED <<workerRest, wres, istate, maxRetries, codecVars, subVars, putVars, notifVars, connVars, pushVars, responseCh,
                   errorCh, netVars, bgVars, cpc, getVars, cghostVars>>

\* sendMessage: client := c.xmppClient under the read lock; nil is "not connected"
ExecSendRead ==
    /\ wpc = "send"
    /\ IF xmppClient = "nil"
       THEN wpc' = "cleanup" /\ wres' = "sendfail"
       ELSE wpc' = "sending" /\ UNCHANGED wres
    /\ UNCHANGED <<workerRest, istate, clientVars>>

\* sendMessage: client.Send(...) succeeds (the device gets the request) or fails
ExecSend ==
    /\ wpc = "sending"
    /\ usedClosed' = (usedClosed \/ sessClosed)
    /\ \/ /\ ~sessClosed
          /\ wire' = wire \cup {wcur}
          /\ wpc' = "await"
          /\ UNCHANGED wres
       \/ /\ wpc' = "cleanup"
          /\ wres' = "sendfail"
          /\ UNCHANGED wire
    /\ UNCHANGED <<workerRest, istate, maxRetries, codecVars, subVars, putVars, notifVars, connVars, pushVars, pendVars,
                   inbound, npush, bgVars, cpc, getVars, consumedFrom, panicSend>>

\* What executeGet makes of a response: "HTTP error <code>: <reason>" when the
\* status is not 200, the DecryptAndStrip error, a panic inside Decrypt, a value
GetResult(resp) ==
    IF StatusCode(resp) # 200 THEN resp
    ELSE CASE Decrypt(resp) = "error" -> "decrypt"
           [] Decrypt(resp) = "panic" -> "panic"
           [] OTHER -> "ok"

\* select, case resp := <-responseCh
ExecResponse ==
    /\ wpc = "await"
    /\ responseCh[wcur] # NoMsg
    /\ IF GetResult(responseCh[wcur].resp) = "panic"
       THEN \* the deferred delete runs while the panic unwinds
            /\ wpc' = "panicked" /\ UNCHANGED wres
            /\ pendingRequests' = pendingRequests \ {wcur}
            /\ pendingErrors' = pendingErrors \ {wcur}
       ELSE /\ wpc' = "cleanup" /\ wres' = GetResult(responseCh[wcur].resp)
            /\ UNCHANGED <<pendingRequests, pendingErrors>>
    /\ consumedFrom' = [consumedFrom EXCEPT ![wcur] = responseCh[wcur].origin]
    /\ responseCh' = [responseCh EXCEPT ![wcur] = NoMsg]
    /\ UNCHANGED <<workerRest, istate, maxRetries, codecVars, subVars, putVars, notifVars, connVars, pushVars,
                   errorCh, netVars, bgVars, cpc, getVars, panicSend, usedClosed>>

\* select, case err := <-errorCh
ExecError ==
    /\ wpc = "await"
    /\ errorCh[wcur]
    /\ wres' = "xmpp"
    /\ errorCh' = [errorCh EXCEPT ![wcur] = FALSE]
    /\ wpc' = "cleanup"
    /\ UNCHANGED <<workerRest, istate, maxRetries, codecVars, subVars, putVars, notifVars, connVars, pushVars, pendingRequests,
                   pendingErrors, responseCh, netVars, bgVars, cpc, getVars, cghostVars>>

\* select, case <-ctx.Done(): return nil, ctx.Err()
ExecCtxDone ==
    /\ wpc = "await"
    /\ ictx[wcur] \in CtxErrs
    /\ wres' = ictx[wcur]
    /\ wpc' = "cleanup"
    /\ UNCHANGED <<workerRest, istate, clientVars>>

\* the deferred delete of both table entries; executeGet returns
ExecCleanupLeavesError ==
    /\ wpc = "cleanup"
    /\ pendingRequests' = pendingRequests \ {wcur}
    /\ istate' = [istate EXCEPT ![wcur] = "finished"]
    /\ wpc' = "deliver"
    /\ UNCHANGED <<workerRest, wres, maxRetries, codecVars, subVars, putVars, notifVars, connVars, pushVars,
                   pendingErrors, responseCh, errorCh, netVars, bgVars, cpc, getVars, cghostVars>>
ExecCleanup ==
    /\ wpc = "cleanup"
    /\ pendingRequests' = pendingRequests \ {wcur}
    /\ pendingErrors' = pendingErrors \ {wcur}
    /\ istate' = [istate EXCEPT ![wcur] = "finished"]
    /\ wpc' = "deliver"
    /\ UNCHANGED <<workerRest, wres, maxRetries, codecVars, subVars, putVars, notifVars, connVars, pushVars, responseCh,
                   errorCh, netVars, bgVars, cpc, getVars, cghostVars>>

executeGet ==
    \/ ExecRegister
    \/ ExecSendRead
    \/ ExecSend
    \/ ExecResponse
    \/ ExecError
    \/ ExecCtxDone
    \/ ExecCleanup

\* ------------------------------------------------ Client.Put
\* What a Put caller never changes.
putEnv == <<chanVars, workerVars, qcpc, maxRetries, codecVars, subVars, retryTimeout, notifVars, connVars,
            pushVars, pendVars, netVars, bgVars, cpc, cghostVars>>

\* if !c.IsConnected() { return "not connected" }; json.Marshal(data) may fail;
\* backoff := c.config.RetryTimeout
PutCall(p, data) ==
    /\ pc[p] = "idle"
    /\ IF ~IsConnected
       THEN /\ pc' = [pc EXCEPT ![p] = "done"]
            /\ gerr' = [gerr EXCEPT ![p] = <<"not connected", "nil">>]
            /\ UNCHANGED backoff
       ELSE IF data = "unmarshalable"
       THEN /\ pc' = [pc EXCEPT ![p] = "done"]
            /\ gerr' = [gerr EXCEPT ![p] = <<"marshal", "nil">>]
            /\ UNCHANGED backoff
       ELSE /\ pc' = [pc EXCEPT ![p] = "loop"]
            /\ backoff' = [backoff EXCEPT ![p] = retryTimeout]
            /\ UNCHANGED gerr
    /\ UNCHANGED <<putEnv, itemVars, cur, ret, ghostVars, stated, waits, attempt,
                   lastErr, outer, errs, outerSeen>>

\* backoff *= 2; if backoff > 30*time.Second { backoff = 30 * time.Second }
NextBackoff(b) == IF b * 2 > 30 THEN 30 ELSE b * 2

\* for attempt := 0; attempt <= c.config.MaxRetries; attempt++
PutLoopContinues(p) == attempt[p] <= maxRetries

\* attempt > 0: select { case <-time.After(backoff): ; case <-ctx.Done(): return
\* ctx.Err() }, then the backoff is doubled up to the cap
PutBackoff(p) ==
    /\ pc[p] = "loop"
    /\ PutLoopContinues(p)
    /\ attempt[p] > 0
    /\ \/ /\ waits' = [waits EXCEPT ![p] = Append(@, backoff[p])]
          /\ backoff' = [backoff EXCEPT ![p] = NextBackoff(@)]
          /\ pc' = [pc EXCEPT ![p] = "waited"]
          /\ UNCHANGED gerr
       \/ /\ outer[p] # "live"
          /\ pc' = [pc EXCEPT ![p] = "done"]
          /\ gerr' = [gerr EXCEPT ![p] = <<"ctx", outer[p]>>]
          /\ UNCHANGED <<waits, backoff>>
    /\ UNCHANGED <<putEnv, itemVars, cur, ret, ghostVars, stated, attempt, lastErr,
                   outer, errs, outerSeen>>

\* reqCtx := WithTimeout(ctx, RetryTimeout) and c.queue.Submit(reqCtx, ...) is called
PutAttempt(p) ==
    /\ \/ pc[p] = "loop" /\ PutLoopContinues(p) /\ attempt[p] = 0
       \/ pc[p] = "waited"
    /\ NewItem(p, "put", ItemOf(p, attempt[p]), outer[p])
    /\ pc' = [pc EXCEPT ![p] = "enq"]
    /\ UNCHANGED <<chanVars, workerVars, ret, qcpc, istate, accepted, started,
                   closePanic, execAtClose, clientVars>>

\* loop head with attempt > MaxRetries:
\* return "PUT request failed after <MaxRetries+1> attempts: %w", lastErr
PutExhausted(p) ==
    /\ pc[p] = "loop"
    /\ ~PutLoopContinues(p)
    /\ pc' = [pc EXCEPT ![p] = "done"]
    /\ gerr' = [gerr EXCEPT ![p] = <<"failed", lastErr[p]>>]
    /\ stated' = [stated EXCEPT ![p] = maxRetries + 1]
    /\ UNCHANGED <<putEnv, itemVars, cur, ret, ghostVars, backoff, waits, attempt,
                   lastErr, outer, errs, outerSeen>>

\* the errors Put retries:
\* err == context.DeadlineExceeded || strings.Contains(err.Error(), "timeout")
PutRetries(err) == err = "deadline" \/ ContainsTimeout(err)

\* Submit returned: cancel(); return nil on success; lastErr = err; break when
\* ctx.Err() != nil; break when the error is not one Put retries; else attempt++
PutAfterSubmit(p) ==
    /\ pc[p] = "ret"
    /\ ictx' = [ictx EXCEPT ![cur[p]] = IF @ = "live" THEN "canceled" ELSE @]
    /\ errs' = [errs EXCEPT ![p] = Append(@, ret[p])]
    /\ outerSeen' = [outerSeen EXCEPT ![p] = Append(@, outer[p])]
    /\ IF ret[p] = "ok"
       THEN /\ pc' = [pc EXCEPT ![p] = "done"]
            /\ gerr' = [gerr EXCEPT ![p] = <<"nil", "nil">>]
            /\ UNCHANGED <<lastErr, attempt, stated>>
       ELSE /\ lastErr' = [lastErr EXCEPT ![p] = ret[p]]
            /\ IF outer[p] # "live" \/ ~PutRetries(ret[p])
               THEN /\ pc' = [pc EXCEPT ![p] = "done"]
                    /\ gerr' = [gerr EXCEPT ![p] = <<"failed", ret[p]>>]
                    /\ stated' = [stated EXCEPT ![p] = maxRetries + 1]
                    /\ UNCHANGED attempt
               ELSE /\ pc' = [pc EXCEPT ![p] = "loop"]
                    /\ attempt' = [attempt EXCEPT ![p] = @ + 1]
                    /\ UNCHANGED <<gerr, stated>>
    /\ UNCHANGED <<putEnv, ikind, resultCh, cur, ret, ghostVars, backoff, waits,
                   outer>>

Put(p) ==
    \/ \E data \in {"json", "unmarshalable"} : PutCall(p, data)
    \/ PutBackoff(p)
    \/ PutAttempt(p)
    \/ PutExhausted(p)
    \/ Submit(p)
    \/ PutAfterSubmit(p)

\* ------------------------------------------------ Client.executePut
\* (run by the queue worker as req.execute())
\* c.pendingRequests[reqID] = responseCh; c.pendingErrors[reqID] = errorCh
PutRegister ==
    /\ wpc = "pregister"
    /\ pendingRequests' = pendingRequests \cup {wcur}
    /\ pendingErrors' = pendingErrors \cup {wcur}
    /\ wpc' = "psend"
    /\ UNCHANGED <<workerRest, wres, istate, maxRetries, codecVars, subVars, putVars, notifVars, connVars,
                   pushVars, responseCh, errorCh, netVars, bgVars, cpc, getVars,
                   cghostVars>>

\* sendMessage: client := c.xmppClient under the read lock; nil is "not connected"
PutSendRead ==
    /\ wpc = "psend"
    /\ IF xmppClient = "nil"
       THEN wpc' = "pcleanup" /\ wres' = "sendfail"
       ELSE wpc' = "psending" /\ UNCHANGED wres
    /\ UNCHANGED <<workerRest, istate, clientVars>>

\* sendMessage: client.Send(...) succeeds (the device gets the request) or fails
PutSend ==
    /\ wpc = "psending"
    /\ usedClosed' = (usedClosed \/ sessClosed)
    /\ \/ /\ ~sessClosed
          /\ wire' = wire \cup {wcur}
          /\ wpc' = "pawait"
          /\ UNCHANGED wres
       \/ /\ wpc' = "pcleanup"
          /\ wres' = "sendfail"
          /\ UNCHANGED wire
    /\ UNCHANGED <<workerRest, istate, maxRetries, codecVars, subVars, putVars, notifVars, connVars,
                   pushVars, pendVars, inbound, npush, bgVars, cpc, getVars,
                   consumedFrom, panicSend>>

\* What executePut makes of a response: "HTTP error <code>: <reason>" when the
\* status code is 300 or more, nil otherwise
PutResult(resp) == IF StatusCode(resp) >= 300 THEN resp ELSE "ok"

\* select, case resp := <-responseCh
PutResponse ==
    /\ wpc = "pawait"
    /\ responseCh[wcur] # NoMsg
    /\ wres' = PutResult(responseCh[wcur].resp)
    /\ consumedFrom' = [consumedFrom EXCEPT ![wcur] = responseCh[wcur].origin]
    /\ responseCh' = [responseCh EXCEPT ![wcur] = NoMsg]
    /\ wpc' = "pcleanup"
    /\ UNCHANGED <<workerRest, istate, maxRetries, codecVars, subVars, putVars, notifVars, connVars,
                   pushVars, pendingRequests, pendingErrors, errorCh, netVars, bgVars,
                   cpc, getVars, panicSend, usedClosed>>

\* select, case err := <-errorCh
PutError ==
    /\ wpc = "pawait"
    /\ errorCh[wcur]
    /\ wres' = "xmpp"
    /\ errorCh' = [errorCh EXCEPT ![wcur] = FALSE]
    /\ wpc' = "pcleanup"
    /\ UNCHANGED <<workerRest, istate, maxRetries, codecVars, subVars, putVars, notifVars, connVars,
                   pushVars, pendingRequests, pendingErrors, responseCh, netVars,
                   bgVars, cpc, getVars, cghostVars>>

\* select, case <-ctx.Done(): return ctx.Err()
PutCtxDone ==
    /\ wpc = "pawait"
    /\ ictx[wcur] \in CtxErrs
    /\ wres' = ictx[wcur]
    /\ wpc' = "pcleanup"
    /\ UNCHANGED <<workerRest, istate, clientVars>>

\* the deferred delete of both table entries; executePut returns
PutCleanup ==
    /\ wpc = "pcleanup"
    /\ pendingRequests' = pendingRequests \ {wcur}
    /\ pendingErrors' = pendingErrors \ {wcur}
    /\ istate' = [istate EXCEPT ![wcur] = "finished"]
    /\ wpc' = "deliver"
    /\ UNCHANGED <<workerRest, wres, maxRetries, codecVars, subVars, putVars, notifVars, connVars,
                   pushVars, responseCh, errorCh, netVars, bgVars, cpc, getVars,
                   cghostVars>>

executePut ==
    \/ PutRegister
    \/ PutSendRead
    \/ PutSend
    \/ PutResponse
    \/ PutError
    \/ PutCtxDone
    \/ PutCleanup

\* ------------------------------------------------ the device
\* The device answers a request it received: a response with status 200 and a
\* well-formed body ("ok"), status 200 and a body that does not decrypt
\* ("badbody"), or another status ("http").
DeviceReply(i, r) ==
    /\ i \in wire
    /\ ~sessClosed
    /\ wire' = wire \ {i}
    /\ inbound' = Append(inbound, [type |-> "chat", origin |-> i, resp |-> r, seq |-> 0])
    /\ UNCHANGED <<queueVars, maxRetries, codecVars, subVars, putVars, notifVars, connVars, pushVars, pendVars, npush, bgVars,
                   cpc, getVars, cghostVars>>

\* The device answers a request with a message of type "error".
DeviceError(i) ==
    /\ i \in wire
    /\ ~sessClosed
    /\ wire' = wire \ {i}
    /\ inbound' = Append(inbound, [type |-> "error", origin |-> i, resp |-> "none",
                                    seq |-> 0])
    /\ UNCHANGED <<queueVars, maxRetries, codecVars, subVars, putVars, notifVars, connVars, pushVars, pendVars, npush, bgVars,
                   cpc, getVars, cghostVars>>

\* The device sends an unsolicited message of type "error".
DeviceErrorPush ==
    /\ xmppClient = "set"
    /\ ~sessClosed
    /\ npush < MaxPush
    /\ npush' = npush + 1
    /\ inbound' = Append(inbound, [type |-> "error", origin |-> 0, resp |-> "none",
                                    seq |-> npush + 1])
    /\ UNCHANGED <<queueVars, maxRetries, codecVars, subVars, putVars, notifVars, connVars, pushVars,
                   pendVars, wire, bgVars, cpc, getVars, cghostVars>>

\* The device sends an unsolicited message with text r (origin 0).
DevicePush(r) ==
    /\ xmppClient = "set"
    /\ ~sessClosed
    /\ npush < MaxPush
    /\ npush' = npush + 1
    /\ inbound' = Append(inbound, [type |-> "chat", origin |-> 0, resp |-> r,
                                    seq |-> npush + 1])
    /\ UNCHANGED <<queueVars, maxRetries, codecVars, subVars, putVars, notifVars, connVars, pushVars, pendVars, wire, bgVars,
                   cpc, getVars, cghostVars>>

device ==
    \/ \E i \in Ids, r \in Responses : DeviceReply(i, r)
    \/ \E i \in Ids : DeviceError(i)
    \/ \E r \in Responses \cup {"garbage"} : DevicePush(r)
    \/ DeviceErrorPush

\* ------------------------------------------------ Client.receiveWorker
\* select, case <-c.ctx.Done(): return (defer c.wg.Done())
ReceiveExit ==
    /\ rpc = "loop"
    /\ ctxCancelled
    /\ rpc' = "exited"
    /\ UNCHANGED <<queueVars, maxRetries, codecVars, subVars, putVars, notifVars, connVars, pushVars, pendVars, netVars, rmsg,
                   ppc, nwpc, cpc, getVars, cghostVars>>

\* select, default: receiveMessage reads c.xmppClient under the read lock
\* (nil: "not connected", logged, sleep, loop again: no change of state)
ReceiveRead ==
    /\ rpc = "loop"
    /\ ~ctxCancelled
    /\ xmppClient = "set"
    /\ rpc' = "recv"
    /\ UNCHANGED <<queueVars, maxRetries, codecVars, subVars, putVars, notifVars, connVars, pushVars, pendVars, netVars, rmsg,
                   ppc, nwpc, cpc, getVars, cghostVars>>

\* client.Recv() returns an error because the session was closed (logged, sleep)
ReceiveFail ==
    /\ rpc = "recv"
    /\ sessClosed
    /\ rpc' = "loop"
    /\ UNCHANGED <<queueVars, maxRetries, codecVars, subVars, putVars, notifVars, connVars, pushVars, pendVars, netVars, rmsg,
                   ppc, nwpc, cpc, getVars, cghostVars>>

\* client.Recv() returns a chat message of type "error": notifyError offers the
\* error to every channel in pendingErrors (non-blocking send)
ReceiveErrorMessageDropped ==
    /\ rpc = "recv"
    /\ ~sessClosed
    /\ inbound # <<>>
    /\ Head(inbound).type = "error"
    /\ inbound' = Tail(inbound)
    /\ rpc' = "loop"
    /\ UNCHANGED <<queueVars, maxRetries, codecVars, subVars, putVars, notifVars, connVars, pushVars, pendVars,
                   wire, npush, rmsg, ppc, nwpc, cpc, getVars, cghostVars>>
ReceiveErrorMessage ==
    /\ rpc = "recv"
    /\ ~sessClosed
    /\ inbound # <<>>
    /\ Head(inbound).type = "error"
    /\ inbound' = Tail(inbound)
    /\ errorCh' = [i \in Ids |-> errorCh[i] \/ i \in pendingErrors]
    /\ rpc' = "loop"
    /\ UNCHANGED <<queueVars, maxRetries, codecVars, subVars, putVars, notifVars, connVars, pushVars, pendingRequests,
                   pendingErrors, responseCh, wire, npush, rmsg, ppc, nwpc, cpc,
                   getVars, cghostVars>>

\* client.Recv() returns a chat message whose text ParseHTTPResponse rejects:
\* logged, handleChatMessage returns nil
ReceiveUnparseable ==
    /\ rpc = "recv"
    /\ ~sessClosed
    /\ inbound # <<>>
    /\ Head(inbound).type = "chat"
    /\ ParseHTTPResponse(Head(inbound).resp) = "error"
    /\ inbound' = Tail(inbound)
    /\ rpc' = "loop"
    /\ UNCHANGED <<queueVars, maxRetries, codecVars, subVars, putVars, notifVars, connVars, pushVars,
                   pendVars, wire, npush, rmsg, ppc, nwpc, cpc, getVars, cghostVars>>

\* client.Recv() returns a chat message whose text ParseHTTPResponse accepts
ReceiveResponse ==
    /\ rpc = "recv"
    /\ ~sessClosed
    /\ inbound # <<>>
    /\ Head(inbound).type = "chat"
    /\ ParseHTTPResponse(Head(inbound).resp) = "ok"
    /\ inbound' = Tail(inbound)
    /\ rmsg' = Head(inbound)
    /\ rpc' = "classify"
    /\ UNCHANGED <<queueVars, maxRetries, codecVars, subVars, putVars, notifVars, connVars, pushVars, pendVars, wire, npush,
                   ppc, nwpc, cpc, getVars, cghostVars>>

\* hasPendingRequests := len(c.pendingRequests) > 0, under the read lock
ReceiveClassify ==
    /\ rpc = "classify"
    /\ rpc' = IF pendingRequests # {} THEN "notify" ELSE "push"
    /\ UNCHANGED <<queueVars, maxRetries, codecVars, subVars, putVars, notifVars, connVars, pushVars, pendVars, netVars, rmsg,
                   ppc, nwpc, cpc, getVars, cghostVars>>

\* notifyResponse: offer resp to every channel in pendingRequests (non-blocking)
notifyResponseBlocking ==
    /\ rpc = "notify"
    /\ \A i \in pendingRequests : responseCh[i] = NoMsg
    /\ responseCh' = [i \in Ids |-> IF i \in pendingRequests THEN rmsg ELSE responseCh[i]]
    /\ rpc' = "loop"
    /\ rmsg' = NoMsg
    /\ UNCHANGED <<queueVars, maxRetries, codecVars, subVars, putVars, notifVars, connVars, pushVars, pendingRequests,
                   pendingErrors, errorCh, netVars, ppc, nwpc, cpc, getVars,
                   cghostVars>>
notifyResponse ==
    /\ rpc = "notify"
    /\ responseCh' = [i \in Ids |->
                         IF i \in pendingRequests /\ responseCh[i] = NoMsg
                         THEN rmsg ELSE responseCh[i]]
    /\ rpc' = "loop"
    /\ rmsg' = NoMsg
    /\ UNCHANGED <<queueVars, maxRetries, codecVars, subVars, putVars, notifVars, connVars, pushVars, pendingRequests,
                   pendingErrors, errorCh, netVars, ppc, nwpc, cpc, getVars,
                   cghostVars>>

\* handlePushNotification: a message with status 200 is decrypted (an error is
\* logged, a panic inside Decrypt ends the goroutine) and sent to
\* pushNotificationChan by a select with a default case; a send on a closed
\* channel panics; a message with another status is ignored
handlePushNotification ==
    /\ rpc = "push"
    /\ rmsg' = NoMsg
    /\ IF StatusCode(rmsg.resp) # 200 \/ Decrypt(rmsg.resp) = "error"
       THEN /\ rpc' = "loop"
            /\ UNCHANGED <<pushNotificationChan, panicSend, enqueued>>
       ELSE IF Decrypt(rmsg.resp) = "panic" \/ pushClosed
       THEN /\ rpc' = "panicked"
            /\ panicSend' = (panicSend \/ Decrypt(rmsg.resp) # "panic")
            /\ UNCHANGED <<pushNotificationChan, enqueued>>
       ELSE /\ rpc' = "loop"
            /\ IF Len(pushNotificationChan) < PushCap
               THEN /\ pushNotificationChan' = Append(pushNotificationChan, rmsg)
                    /\ enqueued' = Append(enqueued, rmsg.seq)
               ELSE UNCHANGED <<pushNotificationChan, enqueued>>
            /\ UNCHANGED panicSend
    /\ UNCHANGED <<queueVars, maxRetries, codecVars, subVars, putVars, dispatched, connVars, pushClosed,
                   pendVars, netVars, ppc, nwpc, cpc, getVars, consumedFrom,
                   usedClosed>>

receiveWorker ==
    \/ ReceiveExit
    \/ ReceiveRead
    \/ ReceiveFail
    \/ ReceiveErrorMessage
    \/ ReceiveUnparseable
    \/ ReceiveResponse
    \/ ReceiveClassify
    \/ notifyResponse
    \/ handlePushNotification

\* ------------------------------------------------ Client.pingWorker
\* select, case <-c.ctx.Done(): return
PingExit ==
    /\ ppc = "run"
    /\ ctxCancelled
    /\ ppc' = "exited"
    /\ UNCHANGED <<queueVars, maxRetries, codecVars, subVars, putVars, notifVars, connVars, pushVars, pendVars, netVars, rpc,
                   rmsg, nwpc, cpc, getVars, cghostVars>>

\* select, case <-ticker.C: sendPing reads c.xmppClient under the read lock
\* (nil: "not connected", logged: no change of state)
PingRead ==
    /\ ppc = "run"
    /\ xmppClient = "set"
    /\ ppc' = "sending"
    /\ UNCHANGED <<queueVars, maxRetries, codecVars, subVars, putVars, notifVars, connVars, pushVars, pendVars, netVars, rpc,
                   rmsg, nwpc, cpc, getVars, cghostVars>>

\* sendPing: client.SendPresence(...)
PingSend ==
    /\ ppc = "sending"
    /\ usedClosed' = (usedClosed \/ sessClosed)
    /\ ppc' = "run"
    /\ UNCHANGED <<queueVars, maxRetries, codecVars, subVars, putVars, notifVars, connVars, pushVars, pendVars, netVars, rpc,
                   rmsg, nwpc, cpc, getVars, consumedFrom, panicSend>>

pingWorker == PingExit \/ PingRead \/ PingSend

\* ------------------------------------------------ Client.Subscribe
\* c.eventHandlersMu.Lock(), then the append
SubscribeLock(h) ==
    /\ spc[h] = "idle"
    /\ eventHandlersMu = "free"
    /\ eventHandlersMu' = "locked"
    /\ eventHandlers' = Append(eventHandlers, h)
    /\ spc' = [spc EXCEPT ![h] = "locked"]
    /\ UNCHANGED <<queueVars, maxRetries, codecVars, handlerRunning, handlerReturned, putVars,
                   notifVars, connVars, pushVars, pendVars, netVars, bgVars, cpc, getVars,
                   cghostVars>>

\* the deferred c.eventHandlersMu.Unlock()
SubscribeUnlock(h) ==
    /\ spc[h] = "locked"
    /\ eventHandlersMu' = "free"
    /\ spc' = [spc EXCEPT ![h] = "done"]
    /\ UNCHANGED <<queueVars, maxRetries, codecVars, eventHandlers, handlerRunning,
                   handlerReturned, putVars, notifVars, connVars, pushVars, pendVars, netVars,
                   bgVars, cpc, getVars, cghostVars>>

Subscribe(h) == SubscribeLock(h) \/ SubscribeUnlock(h)

\* ------------------------------------------------ Client.dispatchPushNotification
\* The handlers are called by the dispatching goroutine itself, inside the
\* read lock.
dispatchPushNotificationInline(n, by) ==
    /\ eventHandlersMu = "free"
    /\ dispatched' = Append(dispatched, [seq |-> n.seq, by |-> by])
    /\ handlerRunning' = handlerRunning \cup
                            {[seq |-> n.seq, h |-> eventHandlers[k]] :
                                k \in 1..(IF eventHandlers = <<>> THEN 0 ELSE 1)}
    /\ eventHandlersMu' = IF eventHandlers = <<>> THEN "free" ELSE "rlocked"
    /\ UNCHANGED <<eventHandlers, spc, handlerReturned>>
\* RLock, copy of the handler list, RUnlock; then one goroutine per copied
\* handler is started (go handler(...)), none of them awaited
dispatchPushNotification(n, by) ==
    /\ eventHandlersMu = "free"
    /\ dispatched' = Append(dispatched, [seq |-> n.seq, by |-> by])
    /\ handlerRunning' = handlerRunning \cup
                            {[seq |-> n.seq, h |-> eventHandlers[k]] :
                                k \in 1..Len(eventHandlers)}
    /\ UNCHANGED <<eventHandlers, eventHandlersMu, spc, handlerReturned>>

\* a handler goroutine returns (a handler need not ever do so)
HandlerReturn(inv) ==
    /\ inv \in handlerRunning
    /\ handlerRunning' = handlerRunning \ {inv}
    /\ handlerReturned' = handlerReturned \cup {inv}
    /\ UNCHANGED <<queueVars, maxRetries, codecVars, eventHandlers, eventHandlersMu, spc,
                   putVars, notifVars, connVars, pushVars, pendVars, netVars, bgVars, cpc,
                   getVars, cghostVars>>

\* ------------------------------------------------ Client.pushNotificationWorker
\* select, case <-c.ctx.Done(): drain, then return
PushWorkerCtxDone ==
    /\ nwpc = "run"
    /\ ctxCancelled
    /\ nwpc' = "drain"
    /\ UNCHANGED <<queueVars, maxRetries, codecVars, subVars, putVars, notifVars, connVars, pushVars, pendVars, netVars, rpc,
                   rmsg, ppc, cpc, getVars, cghostVars>>

\* select, case notification, ok := <-c.pushNotificationChan with ok:
\* dispatchPushNotification starts one goroutine per handler
PushWorkerDispatch ==
    /\ nwpc = "run"
    /\ pushNotificationChan # <<>>
    /\ pushNotificationChan' = Tail(pushNotificationChan)
    /\ dispatchPushNotification(Head(pushNotificationChan), "loop")
    /\ UNCHANGED <<queueVars, maxRetries, codecVars, putVars, enqueued, connVars, pushClosed,
                   pendVars, netVars, bgVars, cpc, getVars, cghostVars>>

\* select, case notification, ok := <-c.pushNotificationChan with !ok: return
PushWorkerClosed ==
    /\ nwpc = "run"
    /\ pushNotificationChan = <<>>
    /\ pushClosed
    /\ nwpc' = "exited"
    /\ UNCHANGED <<queueVars, maxRetries, codecVars, subVars, putVars, notifVars, connVars, pushVars, pendVars, netVars, rpc,
                   rmsg, ppc, cpc, getVars, cghostVars>>

\* drainPushNotifications: receive and dispatch while the channel has a
\* notification; return when the select finds it empty (default) or closed
drainPushNotifications ==
    /\ nwpc = "drain"
    /\ IF pushNotificationChan # <<>>
       THEN /\ pushNotificationChan' = Tail(pushNotificationChan)
            /\ dispatchPushNotification(Head(pushNotificationChan), "drain")
            /\ UNCHANGED nwpc
       ELSE /\ nwpc' = "return"
            /\ UNCHANGED <<pushNotificationChan, dispatched, subVars>>
    /\ UNCHANGED <<queueVars, maxRetries, codecVars, putVars, enqueued, connVars, pushClosed,
                   pendVars, netVars, rpc, rmsg, ppc, cpc, getVars, cghostVars>>

\* after the drain: return, and the deferred c.wg.Done() ends the goroutine
PushWorkerReturn ==
    /\ nwpc = "return"
    /\ nwpc' = "exited"
    /\ UNCHANGED <<queueVars, maxRetries, codecVars, subVars, putVars, notifVars, connVars, pushVars,
                   pendVars, netVars, rpc, rmsg, ppc, cpc, getVars, cghostVars>>

pushNotificationWorker ==
    \/ PushWorkerCtxDone
    \/ PushWorkerDispatch
    \/ PushWorkerClosed
    \/ drainPushNotifications
    \/ PushWorkerReturn

\* ------------------------------------------------ Client.Close
\* c.cancel()
CloseCancel ==
    /\ cpc = "idle"
    /\ ctxCancelled' = TRUE
    /\ cpc' = "cancelled"
    /\ UNCHANGED <<queueVars, maxRetries, codecVars, subVars, putVars, notifVars, xmppClient, sessClosed, pushVars, pendVars,
                   netVars, bgVars, getVars, cghostVars>>

\* under connMu: if c.xmppClient != nil { c.xmppClient.Close(); c.xmppClient = nil }
CloseSession ==
    /\ cpc = "cancelled"
    /\ sessClosed' = (sessClosed \/ xmppClient = "set")
    /\ xmppClient' = "nil"
    /\ cpc' = "sessclosed"
    /\ UNCHANGED <<queueVars, maxRetries, codecVars, subVars, putVars, notifVars, ctxCancelled, pushVars, pendVars, netVars,
                   bgVars, getVars, cghostVars>>

\* close(c.pushNotificationChan)
CloseChannel ==
    /\ cpc = "sessclosed"
    /\ pushClosed' = TRUE
    /\ cpc' = "chanclosed"
    /\ UNCHANGED <<queueVars, maxRetries, codecVars, subVars, putVars, notifVars, connVars, pushNotificationChan, pendVars,
                   netVars, bgVars, getVars, cghostVars>>

\* Mutant: Close does not wait for the background workers.
CloseWaitWorkersSkipped ==
    /\ cpc = "chanclosed"
    /\ cpc' = "waited"
    /\ UNCHANGED <<queueVars, maxRetries, codecVars, subVars, putVars, notifVars, connVars, pushVars,
                   pendVars, netVars, bgVars, getVars, cghostVars>>

\* c.wg.Wait(): the three workers have returned (or were never started)
CloseWaitWorkers ==
    /\ cpc = "chanclosed"
    /\ rpc \in {"off", "exited"}
    /\ ppc \in {"off", "exited"}
    /\ nwpc \in {"off", "exited"}
    /\ cpc' = "waited"
    /\ UNCHANGED <<queueVars, maxRetries, codecVars, subVars, putVars, notifVars, connVars, pushVars, pendVars, netVars,
                   bgVars, getVars, cghostVars>>

\* c.queue.Close()
CloseQueue ==
    /\ cpc = "waited"
    /\ Close(ClientCloser)

ClientClose ==
    \/ CloseCancel
    \/ CloseSession
    \/ CloseChannel
    \/ CloseWaitWorkers
    \/ CloseQueue

\* ------------------------------------------------ Client.Close, called again
\* A second call, made after the first has returned: c.cancel() again
CloseAgainCancel ==
    /\ cpc = "waited"
    /\ qcpc[ClientCloser] = "returned"
    /\ ctxCancelled' = TRUE
    /\ cpc' = "cancelled2"
    /\ UNCHANGED <<queueVars, maxRetries, codecVars, subVars, putVars, notifVars, xmppClient,
                   sessClosed, pushVars, pendVars, netVars, bgVars, getVars, cghostVars>>

\* under connMu: the session is closed if a Connect has stored a new one
CloseAgainSession ==
    /\ cpc = "cancelled2"
    /\ sessClosed' = (sessClosed \/ xmppClient = "set")
    /\ xmppClient' = "nil"
    /\ cpc' = "sessclosed2"
    /\ UNCHANGED <<queueVars, maxRetries, codecVars, subVars, putVars, notifVars, ctxCancelled,
                   pushVars, pendVars, netVars, bgVars, getVars, cghostVars>>

\* close(c.pushNotificationChan): the close of a closed channel panics (the
\* channel is made by NewClient only, so the first call's close still stands)
CloseAgainChannel ==
    /\ cpc = "sessclosed2"
    /\ pushClosed' = TRUE
    /\ cpc' = IF pushClosed THEN "panicked" ELSE "chanclosed2"
    /\ UNCHANGED <<queueVars, maxRetries, codecVars, subVars, putVars, notifVars, connVars,
                   pushNotificationChan, pendVars, netVars, bgVars, getVars, cghostVars>>

CloseAgain ==
    \/ CloseAgainCancel
    \/ CloseAgainSession
    \/ CloseAgainChannel

\* ------------------------------------------------ the client
Next ==
    \/ Connect
    \/ \E g \in Getters : Get(g)
    \/ \E p \in Putters : Put(p)
    \/ \E g \in Callers, err \in CtxErrs : OuterDone(g, err)
    \/ \E i \in Ids : AttemptTimeout(i)
    \/ workerLoop
    \/ executeGet
    \/ executePut
    \/ device
    \/ receiveWorker
    \/ pingWorker
    \/ pushNotificationWorker
    \/ ClientClose
    \/ \E h \in Handlers : Subscribe(h)
    \/ \E inv \in handlerRunning : HandlerReturn(inv)

Spec == Init /\ [][Next]_vars

\* ------------------------------------------------ a connected client serving Get
\* The goroutines that take part in a Get on a client that is not being closed:
\* the callers, the queue worker, the device (which sends one unsolicited
\* message at most) and the receive worker.
receiveRunning ==
    \/ ReceiveRead
    \/ ReceiveErrorMessage
    \/ ReceiveResponse
    \/ ReceiveClassify
    \/ notifyResponse
    \/ handlePushNotification

queueRunning ==
    \/ WorkerDequeue
    \/ WorkerDeliver
    \/ WorkerDiscard

\* What the device answers a GET with.
GetReplies == {"ok", "badbody", "badlen", "http"}

NextGet ==
    \/ Connect
    \/ \E g \in Getters :
          \/ GetCall(g)
          \/ GetAttempt(g)
          \/ GetExhausted(g)
          \/ submitRunning(g)
          \/ GetAfterSubmit(g)
    \/ \E g \in Getters, err \in CtxErrs : OuterDone(g, err)
    \/ \E i \in Ids : AttemptTimeout(i)
    \/ queueRunning
    \/ executeGet
    \/ \E i \in Ids, r \in GetReplies : DeviceReply(i, r)
    \/ \E i \in Ids : DeviceError(i)
    \/ npush = 0 /\ DevicePush("ok")
    \/ receiveRunning

\* Get's model does not read RetryTimeout: the client has the default one.
InitGet == Init /\ retryTimeout = 2

SpecGet == InitGet /\ [][NextGet]_vars

\* ------------------------------------------------ a connected client serving Put
\* The goroutines that take part in a Put on a client that is not being closed.
\* What the device answers a PUT with.
PutReplies == {"ok", "http", "httptimeout"}

NextPut ==
    \/ Connect
    \/ \E p \in Putters :
          \/ \E data \in {"json", "unmarshalable"} : PutCall(p, data)
          \/ PutBackoff(p)
          \/ PutAttempt(p)
          \/ PutExhausted(p)
          \/ submitRunning(p)
          \/ PutAfterSubmit(p)
    \/ \E p \in Putters, err \in CtxErrs : OuterDone(p, err)
    \/ \E i \in Ids : AttemptTimeout(i)
    \/ queueRunning
    \/ executePut
    \/ \E i \in Ids, r \in PutReplies : DeviceReply(i, r)
    \/ \E i \in Ids : DeviceError(i)
    \/ receiveRunning

SpecPut == Init /\ [][NextPut]_vars

\* ------------------------------------------------ a client built with defaults
\* NewClient on a Config that leaves MaxRetries and RetryTimeout unset; the
\* device answers nothing, so every attempt ends by its deadline, which
\* passes while executeGet or executePut waits for the response.  The first
\* MaxAttempts attempts of a call are followed; the application calls Put
\* once its Get has made them.
InitDefault ==
    /\ InitQueue /\ InitClientState /\ InitCodec
    /\ maxRetries = WithDefaults(0)
    /\ retryTimeout = 2

\* The deadline of the attempt the worker is executing passes.
WaitTimesOut ==
    \E i \in Ids : wcur = i /\ wpc \in {"await", "pawait"} /\ AttemptTimeout(i)

NextDefault ==
    \/ Connect
    \/ \E g \in Getters :
          \/ GetCall(g)
          \/ Submitted(g) < MaxAttempts /\ GetAttempt(g)
          \/ GetAfterSubmit(g)
    \/ \E p \in Putters :
          \/ (\A g \in Getters : pc[g] \in {"loop", "done"} /\ Submitted(g) = MaxAttempts)
                /\ PutCall(p, "json")
          \/ Submitted(p) < MaxAttempts /\ PutBackoff(p)
          \/ PutAttempt(p)
          \/ PutAfterSubmit(p)
    \/ \E c \in Callers : SubmitEnqueue(c) \/ SubmitResult(c) \/ SubmitCtxDone2(c)
    \/ WaitTimesOut
    \/ queueRunning
    \/ ExecRegister \/ ExecSendRead \/ ExecSend \/ ExecCtxDone \/ ExecCleanup
    \/ PutRegister \/ PutSendRead \/ PutSend \/ PutCtxDone \/ PutCleanup

SpecDefault == InitDefault /\ [][NextDefault]_vars

\* ------------------------------------------------ Get and Put side by side
\* A connected client on which one goroutine calls Get and another Put; the
\* device answers, reports errors and sends one unsolicited message.  The
\* first attempt of each call is followed.
InitPending == Init /\ maxRetries = 1 /\ retryTimeout = 2

NextPending ==
    \/ Connect
    \/ \E g \in Getters :
          \/ GetCall(g)
          \/ Submitted(g) < 1 /\ GetAttempt(g)
          \/ GetAfterSubmit(g)
    \/ \E p \in Putters :
          \/ PutCall(p, "json")
          \/ Submitted(p) < 1 /\ PutAttempt(p)
          \/ PutAfterSubmit(p)
    \/ \E c \in Callers : submitRunning(c)
    \/ \E i \in Ids : AttemptTimeout(i)
    \/ queueRunning
    \/ executeGet
    \/ executePut
    \/ \E i \in Ids, r \in {"ok", "http"} : DeviceReply(i, r)
    \/ \E i \in Ids : DeviceError(i)
    \/ npush = 0 /\ DevicePush("ok")
    \/ receiveRunning

SpecPending == InitPending /\ [][NextPending]_vars

\* ------------------------------------------------ callers that give up early
\* The same two calls when the device does not answer: the deadline of an
\* attempt passes at any moment, and a caller whose item is still buffered
\* returns from Submit as soon as it does (a caller whose item the worker has
\* taken waits for the result).
GiveUpBuffered(c) ==
    /\ pc[c] = "wait"
    /\ istate[cur[c]] = "queued"
    /\ SubmitCtxDone2(c)

NextAbandon ==
    \/ Connect
    \/ \E g \in Getters :
          \/ GetCall(g)
          \/ Submitted(g) < 1 /\ GetAttempt(g)
          \/ GetAfterSubmit(g)
    \/ \E p \in Putters :
          \/ PutCall(p, "json")
          \/ Submitted(p) < 1 /\ PutAttempt(p)
          \/ PutAfterSubmit(p)
    \/ \E c \in Callers : SubmitEnqueue(c) \/ SubmitResult(c) \/ GiveUpBuffered(c)
    \/ \E i \in Ids : AttemptTimeout(i)
    \/ queueRunning
    \/ ExecRegister \/ ExecSendRead \/ ExecSend \/ ExecCtxDone \/ ExecCleanup
    \/ PutRegister \/ PutSendRead \/ PutSend \/ PutCtxDone \/ PutCleanup

SpecAbandon == InitPending /\ [][NextAbandon]_vars

\* ------------------------------------------------ a client being shut down
\* The goroutines that take part in Client.Close on a client no request is
\* made on: the three background workers, the device's unsolicited messages,
\* Close itself and the queue worker it stops.
NextClose ==
    \/ Connect
    \/ DevicePush("ok")
    \/ ReceiveExit
    \/ ReceiveRead
    \/ ReceiveFail
    \/ ReceiveResponse
    \/ ReceiveClassify
    \/ handlePushNotification
    \/ pingWorker
    \/ pushNotificationWorker
    \/ ClientClose
    \/ WorkerStop

SpecClose == Init /\ [][NextClose]_vars

\* The client being shut down under fair scheduling: a goroutine that can take
\* a step takes one, Recv returns once the session is closed, and a select
\* whose ctx.Done() case is ready again and again takes it in the end (the
\* ticker of the ping worker is not always ready).
SpecCloseLive ==
    /\ Init
    /\ [][NextClose]_vars
    /\ WF_vars(ReceiveExit \/ ReceiveRead \/ ReceiveFail \/ ReceiveResponse
                  \/ ReceiveClassify \/ handlePushNotification)
    /\ SF_vars(PingExit)
    /\ WF_vars(PingSend)
    /\ WF_vars(pushNotificationWorker)
    /\ WF_vars(ClientClose)
    /\ WF_vars(WorkerStop)

\* The same client when Close is called a second time.
NextCloseTwice == NextClose \/ CloseAgain

SpecCloseTwice == Init /\ [][NextCloseTwice]_vars

\* The same client, on which Get and Put are also called at any moment (the
\* calls' first step only: the check of the connection).
NextLife ==
    \/ NextClose
    \/ \E g \in Getters : GetCall(g)
    \/ \E p \in Putters, data \in {"json", "unmarshalable"} : PutCall(p, data)

SpecLife == Init /\ [][NextLife]_vars

\* ------------------------------------------------ the receive worker's intake
\* A connected client on which no request is made and which is not closed: the
\* device's unsolicited messages, the receive worker and the dispatch worker.
NextRecv ==
    \/ Connect
    \/ \E r \in Responses \cup {"garbage"} : DevicePush(r)
    \/ DeviceErrorPush
    \/ ReceiveRead
    \/ ReceiveErrorMessage
    \/ ReceiveUnparseable
    \/ ReceiveResponse
    \/ ReceiveClassify
    \/ handlePushNotification
    \/ PushWorkerDispatch

SpecRecv == Init /\ [][NextRecv]_vars

\* ------------------------------------------------ subscribers
\* A connected client that is not closed and on which no request is made:
\* handlers are subscribed at any moment, the device sends notifications, the
\* receive worker takes them in, the dispatch worker starts the handlers, and
\* each started handler returns or does not.
InitSub == Init /\ maxRetries = 1 /\ retryTimeout = 2

NextSub ==
    \/ Connect
    \/ \E h \in Handlers : Subscribe(h)
    \/ DevicePush("ok")
    \/ ReceiveRead
    \/ ReceiveResponse
    \/ ReceiveClassify
    \/ handlePushNotification
    \/ PushWorkerDispatch
    \/ \E inv \in handlerRunning : HandlerReturn(inv)

SpecSub == InitSub /\ [][NextSub]_vars

\* ------------------------------------------------ the queue on its own
NextQ ==
    \/ \E p \in Submitters : SubmitCall(p)
    \/ \E p \in Submitters : Submit(p)
    \/ \E i \in Ids : CtxDone(i, "canceled")
    \/ worker
    \/ \E c \in Closers : Close(c)

SpecQ == Init /\ [][NextQ]_vars

\* The queue while nobody shuts it down.
workerRunning == queueRunning \/ WorkerExecuteWork

NextQRun ==
    \/ \E p \in Submitters : SubmitCall(p)
    \/ \E p \in Submitters : submitRunning(p)
    \/ \E i \in Ids : CtxDone(i, "canceled")
    \/ workerRunning

\* A running queue under fair scheduling of the worker goroutine and of the
\* goroutines inside Submit.
SpecQLive ==
    /\ Init /\ [][NextQRun]_vars
    /\ WF_vars(workerRunning)
    /\ \A p \in Submitters : WF_vars(SubmitCall(p) \/ submitRunning(p))

\* A running queue under fair scheduling of the goroutines inside Submit only:
\* the worker may stall (its current item may run for as long as it likes).
SpecQCancel ==
    /\ Init /\ [][NextQRun]_vars
    /\ \A p \in Submitters : WF_vars(submitRunning(p))

\* ================================================================ crypto.Encryptor
\* Byte strings are sequences of byte values.  MD5 and the AES block cipher
\* are modelled symbolically: a digest or a cipher block is a record naming
\* what went in, so two of them are equal exactly when their inputs are.
\* A base64 string is a record: wellFormed tells whether DecodeString
\* accepts it; the decoded bytes are `blocks` (whole cipher blocks) followed
\* by `tail` (bytes that do not form a block produced by EncryptBlock).

\* Plaintexts: MaxText bytes of text at most, then MaxZeros zero bytes at most.
MaxText == 33
MaxZeros == 2
SerialNumbers == {"s1", "s2"}
AccessKeys == {"a1", "a2"}
Passwords == {"p1", "p2"}

BlockSize == 16

Fill(b, n) == [i \in 1..n |-> b]
Plaintexts == {Fill(97, k) \o Fill(0, z) : k \in 0..MaxText, z \in 0..MaxZeros}

magicHex == "58f18d70f667c9c79ef7de435bf0f9b1553bbb6e61816212ab80e5b0d351fbb1"

\* md5.New(); Write(a); Write(b); Sum(nil)
MD5(a, b) == [md5 |-> <<a, b>>]

\* generateKey: MD5(accessKey + MAGIC) followed by MD5(MAGIC + password)
generateKey(magic, ak, pw) == <<MD5(ak, magic), MD5(magic, pw)>>

\* NewEncryptor: the key of the Encryptor it returns (serial is not used)
NewEncryptorKeyedBySerial(serial, ak, pw) == <<MD5(ak, magicHex), MD5(<<magicHex, serial>>, pw)>>
NewEncryptor(serial, ak, pw) == generateKey(magicHex, ak, pw)

\* cipher.Block.Encrypt / Decrypt on one 16-byte block
EncryptBlock(k, block) == [key |-> k, block |-> block]
DecryptBlock(k, c) == IF c.key = k THEN c.block ELSE Fill(255, BlockSize)

RECURSIVE Concat(_)
Concat(ss) == IF ss = <<>> THEN <<>> ELSE Head(ss) \o Concat(Tail(ss))

EncodeToString(raw) == [wellFormed |-> TRUE, blocks |-> raw.blocks, tail |-> raw.tail]

\* Encryptor.Encrypt: zero padding to the block size, ECB, base64
EncryptPadsEmpty(k, data) ==
    LET padding == BlockSize - (Len(data) % BlockSize)
        padded == IF (padding > 0 /\ padding < BlockSize) \/ data = <<>>
                  THEN data \o Fill(0, padding) ELSE data
    IN EncodeToString(
         [blocks |-> [i \in 1..(Len(padded) \div BlockSize) |->
                        EncryptBlock(k, SubSeq(padded, BlockSize * (i - 1) + 1, BlockSize * i))],
          tail |-> <<>>])
EncryptAlwaysPads(k, data) ==
    LET padding == BlockSize - (Len(data) % BlockSize)
        padded == IF padding > 0 THEN data \o Fill(0, padding) ELSE data
    IN EncodeToString(
         [blocks |-> [i \in 1..(Len(padded) \div BlockSize) |->
                        EncryptBlock(k, SubSeq(padded, BlockSize * (i - 1) + 1, BlockSize * i))],
          tail |-> <<>>])
Encrypt(k, data) ==
    LET padding == BlockSize - (Len(data) % BlockSize)
        padded == IF padding > 0 /\ padding < BlockSize
                  THEN data \o Fill(0, padding) ELSE data
    IN EncodeToString(
         [blocks |-> [i \in 1..(Len(padded) \div BlockSize) |->
                        EncryptBlock(k, SubSeq(padded, BlockSize * (i - 1) + 1, BlockSize * i))],
          tail |-> <<>>])

\* Encryptor.Decrypt on a base64 string: its error ("nil" for none; "panic"
\* when a block slice runs past the end of the buffer) and its text.
EncryptorDecrypt(k, data) ==
    IF ~data.wellFormed THEN [err |-> "base64", text |-> <<>>]
    ELSE LET length == BlockSize * Len(data.blocks) + Len(data.tail)
             paddingLength == length % 8
             tail == IF paddingLength # 0 THEN data.tail \o Fill(0, paddingLength)
                     ELSE data.tail
         IN IF (BlockSize * Len(data.blocks) + Len(tail)) % BlockSize # 0
            THEN [err |-> "panic", text |-> <<>>]
            ELSE [err |-> "nil",
                  text |-> Concat([i \in 1..Len(data.blocks) |-> DecryptBlock(k, data.blocks[i])])
                           \o Fill(255, Len(tail))]

\* Encryptor.DecryptAndStrip: cut after the last byte that is not zero; a
\* text without such a byte is returned whole.
DecryptAndStripNothing(k, data) == EncryptorDecrypt(k, data)
DecryptAndStrip(k, data) ==
    LET d == EncryptorDecrypt(k, data)
        nonZero == {i \in 1..Len(d.text) : d.text[i] # 0}
    IN IF d.err # "nil" THEN [err |-> d.err, text |-> <<>>]
       ELSE IF nonZero = {} THEN d
       ELSE [err |-> "nil", text |-> SubSeq(d.text, 1, CHOOSE i \in nonZero : \A j \in nonZero : j <= i)]

nonCodecVars == <<chanVars, workerVars, itemVars, callVars, qcpc, ghostVars, maxRetries, subVars, putVars,
                  notifVars, connVars, pushVars, pendVars, netVars, bgVars, cpc, getVars,
                  cghostVars>>

NewEncryptorCall ==
    /\ codecPc = "credentials"
    /\ encKey' = NewEncryptor(serialNumber, accessKey, password)
    /\ codecPc' = "keyed"
    /\ UNCHANGED <<nonCodecVars, serialNumber, accessKey, password, plaintext, ciphertext,
                   decrypted, httpText, xmlData, extracted>>

EncryptCall ==
    /\ codecPc = "keyed"
    /\ ciphertext' = Encrypt(encKey, plaintext)
    /\ codecPc' = "encrypted"
    /\ UNCHANGED <<nonCodecVars, serialNumber, accessKey, password, encKey, plaintext,
                   decrypted, httpText, xmlData, extracted>>

DecryptAndStripCall ==
    /\ codecPc = "encrypted"
    /\ decrypted' = DecryptAndStrip(encKey, ciphertext)
    /\ codecPc' = "decrypted"
    /\ UNCHANGED <<nonCodecVars, serialNumber, accessKey, password, encKey, plaintext,
                   ciphertext, httpText, xmlData, extracted>>

\* Base64 texts that did not come out of Encrypt: malformed ones, and well
\* formed ones that decode to MaxTail bytes at most.
MaxTail == 9
ReceivedTexts ==
    {[wellFormed |-> w, blocks |-> <<>>, tail |-> Fill(1, n)] :
        w \in BOOLEAN, n \in 0..MaxTail}

\* len(ciphertext) after DecodeString, and after the padding Decrypt appends
DecodedLength(data) == BlockSize * Len(data.blocks) + Len(data.tail)
PaddedLength(data) ==
    LET paddingLength == DecodedLength(data) % 8
    IN IF paddingLength # 0 THEN DecodedLength(data) + paddingLength
       ELSE DecodedLength(data)

\* Decrypt called on a text received from the device
DecryptCall(data) ==
    /\ codecPc = "keyed"
    /\ ciphertext' = data
    /\ decrypted' = EncryptorDecrypt(encKey, data)
    /\ codecPc' = "received"
    /\ UNCHANGED <<nonCodecVars, serialNumber, accessKey, password, encKey, plaintext,
                   httpText, xmlData, extracted>>

\* The credentials and the plaintext are the inputs; nothing is computed yet.
InitCrypto ==
    /\ InitQueue /\ InitClient
    /\ codecPc = "credentials"
    /\ serialNumber \in SerialNumbers
    /\ accessKey \in AccessKeys
    /\ password \in Passwords
    /\ plaintext \in Plaintexts
    /\ encKey = <<>>
    /\ ciphertext = [wellFormed |-> TRUE, blocks |-> <<>>, tail |-> <<>>]
    /\ decrypted = [err |-> "nil", text |-> <<>>]
    /\ httpText = <<>>
    /\ xmlData = [from |-> <<>>, to |-> <<>>, body |-> <<>>]
    /\ extracted = [err |-> "nil", text |-> <<>>]

NextCrypto ==
    \/ NewEncryptorCall
    \/ EncryptCall
    \/ DecryptAndStripCall
    \/ \E data \in ReceivedTexts : DecryptCall(data)

SpecCrypto == InitCrypto /\ [][NextCrypto]_vars

\* ================================================================ protocol codec
\* Texts are sequences of characters (one-character strings; "NUL" stands
\* for the byte 0 of the placeholder).  A stanza is the record of the three
\* texts that Sprintf puts into `<message from="" to=""><body></body></message>`.

\* Request texts: MaxChars characters at most, out of TextChars.
MaxChars == 3
TextChars == {"G", "\r", "&", "<", ">", "\""}
Addresses == {<<"a", "@", "h">>, <<"a", "&", "h">>}

RECURSIVE TextsUpTo(_)
TextsUpTo(n) ==
    IF n = 0 THEN {<<>>}
    ELSE TextsUpTo(n - 1) \cup {Append(t, c) : t \in {u \in TextsUpTo(n - 1) : Len(u) = n - 1},
                                                c \in TextChars}

\* strings.ReplaceAll: non-overlapping occurrences, left to right
RECURSIVE ReplaceAll(_, _, _)
ReplaceAll(s, old, new) ==
    IF Len(s) < Len(old) THEN s
    ELSE IF SubSeq(s, 1, Len(old)) = old
         THEN new \o ReplaceAll(SubSeq(s, Len(old) + 1, Len(s)), old, new)
         ELSE <<Head(s)>> \o ReplaceAll(Tail(s), old, new)

\* html.EscapeString
EscapeChar(c) ==
    CASE c = "&" -> <<"&", "a", "m", "p", ";">>
      [] c = "<" -> <<"&", "l", "t", ";">>
      [] c = ">" -> <<"&", "g", "t", ";">>
      [] c = "\"" -> <<"&", "#", "3", "4", ";">>
      [] c = "'" -> <<"&", "#", "3", "9", ";">>
      [] OTHER -> <<c>>
EscapeString(s) == Concat([i \in 1..Len(s) |-> EscapeChar(s[i])])

placeholder == <<"NUL", "C", "R", "L", "F", "NUL">>
CREntity == <<"&", "#", "1", "3", ";">>

\* escapeXMLBody: CR to placeholder, escape, placeholder to "&#13;\n"
escapeXMLBody(body) ==
    ReplaceAll(EscapeString(ReplaceAll(body, <<"\r">>, placeholder)),
               placeholder, CREntity \o <<"\n">>)

buildXMPPMessage(from, to, body) ==
    [from |-> EscapeString(from), to |-> EscapeString(to), body |-> escapeXMLBody(body)]

\* xml.Unmarshal into MessageStanza.Body: the character data of <body>.
\* A character reference or predefined entity is replaced by its character;
\* a literal CR, with the LF after it if there is one, becomes one LF; a
\* bare "<" or an unknown entity makes the document malformed ("invalid").
Entities ==
    { [name |-> <<"&", "a", "m", "p", ";">>, char |-> "&"],
      [name |-> <<"&", "l", "t", ";">>, char |-> "<"],
      [name |-> <<"&", "g", "t", ";">>, char |-> ">"],
      [name |-> <<"&", "#", "3", "4", ";">>, char |-> "\""],
      [name |-> <<"&", "#", "3", "9", ";">>, char |-> "'"],
      [name |-> CREntity, char |-> "\r"] }
EntityAt(s) == {e \in Entities : Len(s) >= Len(e.name) /\ SubSeq(s, 1, Len(e.name)) = e.name}

RECURSIVE CharData(_)
CharData(s) ==
    IF s = <<>> THEN <<>>
    ELSE IF Head(s) = "&"
         THEN IF EntityAt(s) = {} THEN <<"invalid">>
              ELSE LET e == CHOOSE e \in EntityAt(s) : TRUE
                   IN <<e.char>> \o CharData(SubSeq(s, Len(e.name) + 1, Len(s)))
    ELSE IF Head(s) = "<" THEN <<"invalid">>
    ELSE IF Head(s) = "\r"
         THEN <<"\n">> \o CharData(IF Len(s) >= 2 /\ s[2] = "\n"
                                   THEN SubSeq(s, 3, Len(s)) ELSE Tail(s))
    ELSE <<Head(s)>> \o CharData(Tail(s))

\* ExtractBody: unmarshal, then replace "&#13;" by CR in the body
ExtractBody(x) ==
    LET body == CharData(x.body)
    IN IF \E i \in 1..Len(body) : body[i] = "invalid"
       THEN [err |-> "unmarshal", text |-> <<>>]
       ELSE [err |-> "nil", text |-> ReplaceAll(body, CREntity, <<"\r">>)]

BuildMessageCall ==
    /\ codecPc = "text"
    /\ \E from \in Addresses, to \in Addresses :
           xmlData' = buildXMPPMessage(from, to, httpText)
    /\ codecPc' = "built"
    /\ UNCHANGED <<nonCodecVars, serialNumber, accessKey, password, encKey, plaintext,
                   ciphertext, decrypted, httpText, extracted>>

ExtractBodyCall ==
    /\ codecPc = "built"
    /\ extracted' = ExtractBody(xmlData)
    /\ codecPc' = "extracted"
    /\ UNCHANGED <<nonCodecVars, serialNumber, accessKey, password, encKey, plaintext,
                   ciphertext, decrypted, httpText, xmlData>>

\* The request text is the input; nothing is built yet.
InitProtocol ==
    /\ InitQueue /\ InitClient
    /\ codecPc = "text"
    /\ httpText \in TextsUpTo(MaxChars)
    /\ serialNumber = ""
    /\ accessKey = ""
    /\ password = ""
    /\ encKey = <<>>
    /\ plaintext = <<>>
    /\ ciphertext = [wellFormed |-> TRUE, blocks |-> <<>>, tail |-> <<>>]
    /\ decrypted = [err |-> "nil", text |-> <<>>]
    /\ xmlData = [from |-> <<>>, to |-> <<>>, body |-> <<>>]
    /\ extracted = [err |-> "nil", text |-> <<>>]

NextProtocol == BuildMessageCall \/ ExtractBodyCall

SpecProtocol == InitProtocol /\ [][NextProtocol]_vars

\* ------------------------------------------------ protocol.ParseHTTPResponse
\* Response texts: MaxResp characters at most out of ResponseChars ("H" is a
\* character that is neither a digit nor a space), and short ones followed by
\* the entity of a CR and a newline, as the encoder writes a line end.
MaxResp == 5
ResponseChars == {"H", "2", " ", "\r", "\n"}

RECURSIVE TextsOver(_, _)
TextsOver(chars, n) ==
    IF n = 0 THEN {<<>>}
    ELSE LET shorter == TextsOver(chars, n - 1)
         IN shorter \cup {Append(t, c) : t \in {u \in shorter : Len(u) = n - 1}, c \in chars}

ResponseTexts ==
    TextsOver(ResponseChars, MaxResp)
        \cup {t \o CREntity \o <<"\n">> : t \in TextsOver(ResponseChars, 3)}

\* position of the first c in s, 0 if there is none
IndexOf(s, c) ==
    IF \E i \in 1..Len(s) : s[i] = c
    THEN CHOOSE i \in 1..Len(s) : s[i] = c /\ \A j \in 1..(i - 1) : s[j] # c
    ELSE 0

\* bufio.Reader.ReadString: the text up to and including the first delim; the
\* whole text and io.EOF when there is no delim
ReadString(s, delim) ==
    IF IndexOf(s, delim) = 0 THEN [line |-> s, err |-> "EOF"]
    ELSE [line |-> SubSeq(s, 1, IndexOf(s, delim)), err |-> "nil"]

\* strings.TrimSpace
TrimSpace(s) ==
    LET keep == {i \in 1..Len(s) : s[i] \notin {" ", "\t", "\r", "\n"}}
    IN IF keep = {} THEN <<>>
       ELSE SubSeq(s, CHOOSE i \in keep : \A j \in keep : i <= j,
                      CHOOSE i \in keep : \A j \in keep : j <= i)

\* strings.SplitN with a separator of one character
RECURSIVE SplitN(_, _, _)
SplitN(s, sep, n) ==
    IF n = 1 \/ IndexOf(s, sep) = 0 THEN <<s>>
    ELSE <<SubSeq(s, 1, IndexOf(s, sep) - 1)>>
             \o SplitN(SubSeq(s, IndexOf(s, sep) + 1, Len(s)), sep, n - 1)

\* strconv.Atoi succeeds: an optional sign, then one decimal digit or more
\* (texts of MaxResp characters stay within the range of int)
AtoiOk(t) ==
    LET digits == IF t # <<>> /\ t[1] \in {"+", "-"} THEN Tail(t) ELSE t
    IN /\ digits # <<>>
       /\ \A i \in 1..Len(digits) :
              digits[i] \in {"0", "1", "2", "3", "4", "5", "6", "7", "8", "9"}

\* ParseHTTPResponse, its error ("nil" for none) and the status line it cut.
\* Past the status code nothing fails: the reader is a strings.Reader, whose
\* only error is io.EOF, which the header loop and io.Copy accept.
ParseHTTPResponseText(data) ==
    LET text == ReplaceAll(ReplaceAll(data, CREntity, <<"\r">>), <<"\n">>, <<"\r", "\n">>)
        read == ReadString(text, "\n")
        statusLine == TrimSpace(read.line)
        parts == SplitN(statusLine, " ", 3)
    IN IF read.err # "nil"
       THEN [err |-> "failed to read status line", text |-> <<>>]
       ELSE IF Len(parts) < 2
       THEN [err |-> "invalid status line", text |-> statusLine]
       ELSE IF ~AtoiOk(parts[2])
       THEN [err |-> "invalid status code", text |-> parts[2]]
       ELSE [err |-> "nil", text |-> parts[2]]

ParseHTTPResponseCall ==
    /\ codecPc = "response"
    /\ extracted' = ParseHTTPResponseText(httpText)
    /\ codecPc' = "parsed"
    /\ UNCHANGED <<nonCodecVars, serialNumber, accessKey, password, encKey, plaintext,
                   ciphertext, decrypted, httpText, xmlData>>

\* The response text is the input; nothing is parsed yet.
InitParse ==
    /\ InitQueue /\ InitClient
    /\ codecPc = "response"
    /\ httpText \in ResponseTexts
    /\ serialNumber = ""
    /\ accessKey = ""
    /\ password = ""
    /\ encKey = <<>>
    /\ plaintext = <<>>
    /\ ciphertext = [wellFormed |-> TRUE, blocks |-> <<>>, tail |-> <<>>]
    /\ decrypted = [err |-> "nil", text |-> <<>>]
    /\ xmlData = [from |-> <<>>, to |-> <<>>, body |-> <<>>]
    /\ extracted = [err |-> "nil", text |-> <<>>]

NextParse == ParseHTTPResponseCall

SpecParse == InitParse /\ [][NextParse]_vars

\* ================================================================ claims
Executing == {i \in Ids : istate[i] = "executing"}
NeverRun(i) == istate[i] \in {"new", "queued"}

\* C1: single-flight -- at most one work item submitted to the RequestQueue is
\* between the start and the return of its execute function at any instant.
C1_SingleFlight == Cardinality(Executing) <= 1

C1_Witness ==
    /\ Cardinality(Executing) = 1
    /\ requestCh # <<>>
    /\ \E p \in Procs : pc[p] = "enq"

\* C2: a response that an executeGet attempt takes from its waiter channel is the
\* device's reply to that very attempt (never the reply to an earlier attempt,
\* never an unsolicited message).
C2_ResponseIsOwnReply ==
    \A i \in Ids : consumedFrom[i] # -1 => consumedFrom[i] = i

\* C3: the receive worker never sends on pushNotificationChan after Close has
\* closed it, and no worker calls the transport session after it was closed.
C3_CloseOrderingAvoidsRaces == ~panicSend /\ ~usedClosed

\* C4: on a running queue with a fairly scheduled worker, every one of the N
\* Submit call returns, with its item's result or its context's error.
C4_EverySubmitReturns ==
    \A p \in Submitters :
        <>(pc[p] = "ret" /\ ret[p] \in {"ok"} \cup CtxErrs)

C4_Witness ==
    /\ \A p \in Submitters : pc[p] = "ret"
    /\ \E p \in Submitters : ret[p] = "ok"
    /\ \E p \in Submitters : ret[p] \in CtxErrs

\* C5: items start executing in the order they were accepted into requestCh,
\* and an item starts only after every item accepted before it has finished.
C5_Fifo ==
    /\ Len(started) <= Len(accepted)
    /\ \A k \in 1..Len(started) : started[k] = accepted[k]
    /\ \A k \in 1..(Len(started) - 1) : istate[started[k]] = "finished"

C5_Witness ==
    /\ Len(started) >= 2
    /\ accepted[1] > accepted[2]

C7_ClosedQueueRejects ==
    \A p \in Procs :
        (cur[p] \in lateCall) =>
            /\ istate[cur[p]] = "new"
            /\ pc[p] = "ret" => ret[p] = "stopped"

\* C8: Close returns only after the worker has exited with no item executing,
\* and no call of Close panics, however many there are.
C8_CloseWaitsForWorker ==
    /\ ~closePanic
    /\ \A c \in AllClosers :
        qcpc[c] = "returned" => (wpc = "exited" /\ Executing = {})

C8_Witness ==
    /\ execAtClose
    /\ \A c \in Closers : qcpc[c] = "returned"

AllTimedOut(g) ==
    /\ Len(errs[g]) >= 1
    /\ \A k \in 1..Len(errs[g]) : errs[g][k] = "deadline" /\ outerSeen[g][k] = "live"
    /\ outer[g] = "live"

\* C9: a Get whose every attempt ends in its per-attempt deadline, with the
\* caller's context live, makes exactly MaxRetries + 1 attempts and returns an
\* error wrapping context.DeadlineExceeded.
C9_TimedOutGetAttempts ==
    \A g \in Getters :
        (pc[g] = "done" /\ AllTimedOut(g)) =>
            /\ Submitted(g) = maxRetries + 1
            /\ gerr[g] = <<"failed", "deadline">>

C9_Witness ==
    \E g \in Getters :
        /\ pc[g] = "done"
        /\ AllTimedOut(g)
        /\ Submitted(g) = 2
        /\ \E i \in Ids : ikind[i] = "get" /\ istate[i] = "finished"

\* C10: in Get, an attempt is followed by another attempt only if it failed
\* with its per-attempt deadline while the caller's context was live: every
\* other failure, and every failure seen with the caller's context done, ends
\* the Get.
C10_OnlyTimeoutRetried ==
    \A g \in Getters :
        \A k \in 1..Len(errs[g]) :
            (k < Submitted(g) \/ pc[g] = "loop") =>
                (errs[g][k] = "deadline" /\ outerSeen[g][k] = "live")

C10_Witness ==
    \E g \in Getters :
        /\ pc[g] = "done"
        /\ maxRetries = 1
        /\ Submitted(g) = 1
        /\ errs[g] = <<"deadline">>
        /\ outerSeen[g] = <<"deadline">>

\* ---------------------------------------------------------------- C11..C20
\* C11: a Put whose first attempt is answered with a status code >= 300 makes
\* exactly one attempt, whatever the code and the reason text, and returns an
\* error that carries that code and reason.
C11_RejectedPutIsFinal ==
    \A p \in Putters :
        (Len(errs[p]) >= 1 /\ errs[p][1] \in Rejections) =>
            /\ Submitted(p) = 1
            /\ pc[p] = "done"
            /\ gerr[p] = <<"failed", errs[p][1]>>

RECURSIVE Pow2(_)
Pow2(n) == IF n <= 0 THEN 1 ELSE 2 * Pow2(n - 1)

Min(a, b) == IF a < b THEN a ELSE b

\* C12: in Put the wait before attempt k (k >= 2) is
\* min(RetryTimeout * 2^(k-2), 30 seconds), for every configured RetryTimeout;
\* no wait exceeds 30 seconds.
C12_BackoffSchedule ==
    \A p \in Putters :
        \A k \in 2..(Len(waits[p]) + 1) :
            /\ waits[p][k - 1] = Min(retryTimeout * Pow2(k - 2), 30)
            /\ waits[p][k - 1] <= 30

\* C13: a Put whose every attempt ends in its per-attempt deadline, with the
\* caller's context live, makes exactly MaxRetries + 1 attempts; no Put makes
\* more; and an attempt is followed by another attempt only if it ended in a
\* timeout (its deadline passed), never after a response or another error.
C13_PutAttempts ==
    \A p \in Putters :
        /\ (pc[p] = "done" /\ AllTimedOut(p)) => Submitted(p) = maxRetries + 1
        /\ Submitted(p) <= IF maxRetries < 0 THEN 0 ELSE maxRetries + 1
        /\ \A k \in 1..Len(errs[p]) :
               (k < Submitted(p) \/ pc[p] \in {"loop", "waited"}) =>
                   errs[p][k] = "deadline"

\* C14: when Get or Put returns its final failure after at least one attempt,
\* the attempt count stated in the error is the number of attempts that were
\* made.
C14_StatedAttemptsAreMade ==
    \A c \in Callers :
        (pc[c] = "done" /\ gerr[c][1] = "failed" /\ Submitted(c) >= 1) =>
            stated[c] = Submitted(c)

\* the seq numbers of a sequence of notifications
RECURSIVE Seqs(_)
Seqs(ns) == IF ns = <<>> THEN <<>> ELSE <<Head(ns).seq>> \o Seqs(Tail(ns))

\* C15: when pushNotificationChan is full, handling a new unsolicited message
\* drops it and the receive worker goes on (it neither blocks nor stops), the
\* buffered notifications stay as they are, and notifications are dispatched in
\* the order they were accepted.
C15_FullBufferDropsNewest ==
    /\ [][(/\ rpc = "push"
           /\ rpc' # "push"
           /\ Len(pushNotificationChan) = PushCap
           /\ StatusCode(rmsg.resp) = 200
           /\ Decrypt(rmsg.resp) = "ok")
          => (/\ rpc' = "loop"
              /\ pushNotificationChan' = pushNotificationChan)]_vars
    /\ [](Seqs(dispatched) \o Seqs(pushNotificationChan) = enqueued)

\* C16: when the dispatch worker terminates, every notification that was
\* accepted into pushNotificationChan has been dispatched.
C16_DrainedAtExit ==
    [][(nwpc # "exited" /\ nwpc' = "exited")
       => (pushNotificationChan = <<>> /\ Seqs(dispatched) = enqueued)]_vars

Terminated == rpc \in {"off", "exited"} /\ ppc \in {"off", "exited"}
              /\ nwpc \in {"off", "exited"}

\* C17: Client.Close cancels the lifecycle context, then closes the session,
\* then closes pushNotificationChan, then waits for the three workers, then
\* shuts the RequestQueue down; when it returns, the three workers and the
\* queue worker have terminated.
C17_CloseOrder ==
    [][/\ (sessClosed' /\ ~sessClosed) => ctxCancelled
       /\ (pushClosed' /\ ~pushClosed) => (ctxCancelled /\ xmppClient = "nil")
       /\ (stopCh' /\ ~stopCh) => (pushClosed /\ Terminated)
       /\ (qcpc'[ClientCloser] = "returned" /\ qcpc[ClientCloser] # "returned")
              => (stopCh /\ Terminated /\ wpc = "exited")]_vars

C17_Witness ==
    /\ qcpc[ClientCloser] = "returned"
    /\ rpc = "exited" /\ ppc = "exited" /\ nwpc = "exited" /\ wpc = "exited"
    /\ sessClosed /\ pushClosed /\ ctxCancelled

\* C18: once Close has returned the client is never connected again:
\* IsConnected stays false and no background worker runs, whatever is called.
C18_ClosedIsTerminal ==
    qcpc[ClientCloser] = "returned" => (~IsConnected /\ Terminated)

\* C19: no inbound message stops the receive worker (on a client that is not
\* being closed): whatever the device sends, the worker goes on receiving.
C19_ReceiveWorkerSurvives == rpc # "panicked"

\* C20: Get and Put called while c.xmppClient is nil return the not-connected
\* error and change nothing else: nothing is submitted to the queue, no waiter
\* is registered, nothing is sent.
C20_NotConnectedIsInert ==
    [][\A c \in Callers :
          (pc[c] = "idle" /\ pc'[c] # "idle" /\ xmppClient = "nil") =>
              /\ pc'[c] = "done"
              /\ gerr'[c] = <<"not connected", "nil">>
              /\ UNCHANGED <<chanVars, workerVars, itemVars, cur, ret, ghostVars,
                             pendVars, netVars, connVars, pushVars, attempt,
                             lastErr, stated>>]_vars

C20_Witness ==
    /\ \E g \in Getters : pc[g] = "done" /\ gerr[g] = <<"not connected", "nil">>
    /\ \E p \in Putters : pc[p] = "done" /\ gerr[p] = <<"not connected", "nil">>
    /\ requestCh = <<>> /\ accepted = <<>> /\ pendingRequests = {} /\ wire = {}

\* ---------------------------------------------------------------- C21..C30
\* C21 as stated: for every plaintext P, those ending in zero bytes included,
\* DecryptAndStrip(Encrypt(P)) returns exactly P.
C21_RoundTripEveryPlaintext ==
    codecPc = "decrypted" => decrypted = [err |-> "nil", text |-> plaintext]

\* C21 amended: for every plaintext P that does not end in a zero byte (the
\* empty one and exact multiples of 16 bytes included),
\* DecryptAndStrip(Encrypt(P)) returns exactly P.
C21_RoundTripNoTrailingZero ==
    (codecPc = "decrypted" /\ (plaintext = <<>> \/ plaintext[Len(plaintext)] # 0))
        => decrypted = [err |-> "nil", text |-> plaintext]

C21_Witness ==
    /\ codecPc = "decrypted"
    /\ Len(plaintext) = 2 * BlockSize /\ plaintext[Len(plaintext)] # 0
    /\ decrypted.text = plaintext

\* C22: the key and the ciphertext depend on the access key, the password and
\* the plaintext only: an encryptor built with any other serial number has
\* the same key and gives the same ciphertext.
C22_SerialNotInKey ==
    codecPc \in {"encrypted", "decrypted"} =>
        \A s \in SerialNumbers :
            /\ NewEncryptor(s, accessKey, password) = encKey
            /\ Encrypt(NewEncryptor(s, accessKey, password), plaintext) = ciphertext

C22_Witness ==
    /\ codecPc = "encrypted" /\ serialNumber = "s2" /\ Len(plaintext) = 5
    /\ ciphertext = Encrypt(NewEncryptor("s1", accessKey, password), plaintext)

\* C23: the raw ciphertext is the plaintext followed by zero bytes up to the
\* smallest multiple of 16 that is >= its length, encrypted block by block:
\* its length is a multiple of 16 and less than one block above the
\* plaintext's.
RawLen(c) == BlockSize * Len(c.blocks) + Len(c.tail)
C23_PadsToNextBlock ==
    codecPc \in {"encrypted", "decrypted"} =>
        /\ ciphertext.wellFormed
        /\ RawLen(ciphertext) % BlockSize = 0
        /\ RawLen(ciphertext) >= Len(plaintext)
        /\ RawLen(ciphertext) < Len(plaintext) + BlockSize
        /\ EncryptorDecrypt(encKey, ciphertext).text
             = plaintext \o Fill(0, RawLen(ciphertext) - Len(plaintext))

C23_Witness ==
    /\ codecPc = "encrypted" /\ Len(plaintext) = BlockSize
    /\ RawLen(ciphertext) = BlockSize

\* C24 as stated: encrypting the empty string yields exactly one cipher block,
\* the encryption of 16 zero bytes, and DecryptAndStrip of it returns the
\* empty string.
C24_EmptyIsOneBlock ==
    (plaintext = <<>> /\ codecPc \in {"encrypted", "decrypted"}) =>
        /\ ciphertext.blocks = <<EncryptBlock(encKey, Fill(0, BlockSize))>>
        /\ codecPc = "decrypted" => decrypted = [err |-> "nil", text |-> <<>>]

\* C24 amended: encrypting the empty string yields the empty ciphertext (no
\* block at all), and DecryptAndStrip of it returns the empty string.
C24_EmptyIsNoBlock ==
    (plaintext = <<>> /\ codecPc \in {"encrypted", "decrypted"}) =>
        /\ RawLen(ciphertext) = 0
        /\ codecPc = "decrypted" => decrypted = [err |-> "nil", text |-> <<>>]

C24_Witness ==
    plaintext = <<>> /\ codecPc = "decrypted" /\ ciphertext.blocks = <<>> /\ decrypted.text = <<>>

\* C25: for every request text, extracting the body of the stanza that
\* buildXMPPMessage built from it returns the text exactly: each CR comes
\* back as one CR and nothing is added.
C25_EncodeDecodeRoundTrip ==
    codecPc = "extracted" => extracted = [err |-> "nil", text |-> httpText]

\* C26: a client built from a Config that leaves MaxRetries unset retries 3
\* times: no Get or Put makes more than 4 attempts.
C26_DefaultThreeRetries ==
    \A c \in Callers : Submitted(c) <= 3 + 1

\* The worker is inside executeGet or executePut for item i, past the
\* registration of its waiter and before the deferred delete has run.
InCall(i) ==
    /\ wcur = i
    /\ wpc \in {"send", "sending", "await", "cleanup", "psend", "psending", "pawait", "pcleanup"}

\* C27: a waiter is in the pending tables only while its call is running; it
\* is inserted once, when the call starts, and removed once, from both tables
\* in the step by which the call returns, whatever made the call return; a
\* finished call's id is in neither table.
C27_WaiterRemovedOnce ==
    /\ [](\A i \in Ids :
            /\ i \in pendingRequests \cup pendingErrors => InCall(i)
            /\ istate[i] = "finished" => i \notin pendingRequests \cup pendingErrors)
    /\ [][\A i \in Ids :
            /\ (i \notin pendingRequests \cup pendingErrors
                   /\ i \in pendingRequests' \cup pendingErrors')
                 => wcur = i /\ wpc \in {"register", "pregister"} /\ istate[i] = "executing"
            /\ (i \in pendingRequests \cup pendingErrors
                   /\ (i \notin pendingRequests' \/ i \notin pendingErrors'))
                 => /\ i \notin pendingRequests' \cup pendingErrors'
                    /\ wcur = i /\ wpc \in {"cleanup", "pcleanup"}
                    /\ istate'[i] = "finished"]_vars

\* Both calls have returned, one with the response it received and one because
\* its context was done, and the tables are empty.
C27_Witness ==
    /\ pendingRequests = {} /\ pendingErrors = {}
    /\ \E i, j \in Ids :
          /\ ikind[i] = "get" /\ ikind[j] = "put"
          /\ istate[i] = "finished" /\ istate[j] = "finished"
          /\ consumedFrom[i] = i
          /\ consumedFrom[j] = -1 /\ ictx[j] = "deadline"

\* C28: the pending tables hold at most one waiter, none when no queue item is
\* executing, and the two tables have the same keys.
C28_OneWaiter ==
    /\ Cardinality(pendingRequests) <= 1
    /\ Executing = {} => pendingRequests = {}
    /\ pendingRequests = pendingErrors

\* One waiter is registered and awaited while the other request is queued.
C28_Witness ==
    /\ Cardinality(pendingRequests) = 1
    /\ wpc \in {"await", "pawait"}
    /\ requestCh # <<>>

\* The waiter of item i has not been put in the table yet.
NotYetRegistered(i) ==
    \/ istate[i] \in {"new", "queued"}
    \/ istate[i] = "executing" /\ i \notin pendingRequests /\ wpc # "panicked"

\* C29: a request reaches the transport only with its waiter in the table:
\* while the waiter of a request is not yet registered, the device has not
\* received the request and no reply to it is in flight or being classified.
C29_RegisteredBeforeSend ==
    \A i \in Ids :
        NotYetRegistered(i) =>
            /\ i \notin wire
            /\ \A k \in 1..Len(inbound) : inbound[k].origin # i
            /\ rmsg.origin # i

\* The reply to a request is being classified while the waiter of that request
\* is in the table.
C29_Witness ==
    /\ rpc = "classify"
    /\ rmsg.origin \in pendingRequests

\* C30: the receive worker takes a parsed message to the waiters exactly when
\* it found the table non-empty and to the push handling exactly when it
\* found it empty; the offer puts the message into the channel of every
\* waiter of the table whose channel is empty, leaves the full channels as
\* they are, and can always be taken: it never waits for a channel.
C30_OfferToAllNeverBlocks ==
    /\ [](rpc = "notify" => ENABLED notifyResponse)
    /\ [][/\ (rpc = "classify" /\ rpc' = "notify") => pendingRequests # {}
          /\ (rpc = "classify" /\ rpc' = "push") => pendingRequests = {}
          /\ rpc = "classify" => rpc' \in {"classify", "notify", "push"}
          /\ (rpc = "notify" /\ rpc' # "notify") =>
                /\ rpc' = "loop"
                /\ \A i \in Ids :
                      responseCh'[i] = IF i \in pendingRequests /\ responseCh[i] = NoMsg
                                       THEN rmsg ELSE responseCh[i]]_vars

\* The worker is about to offer a message while a waiter's channel is full.
C30_Witness ==
    /\ rpc = "notify"
    /\ \E i \in pendingRequests : responseCh[i] # NoMsg

\* ---------------------------------------------------------------- C31..C40
\* The receive worker handles a message of type "error" in this step.
ErrorMessageStep ==
    rpc = "recv" /\ rpc' = "loop" /\ inbound # <<>> /\ Head(inbound).type = "error"

\* C31 as stated: a message of type error is offered to the error channel of
\* every pending waiter and never enters the notification buffer, and every
\* attempt that was offered an error ends by failing with it (no offered
\* error is left in the channel of a finished attempt).
C31_ErrorFailsTheAttempt ==
    /\ [][ErrorMessageStep =>
            /\ \A i \in pendingErrors : errorCh'[i]
            /\ pushNotificationChan' = pushNotificationChan /\ enqueued' = enqueued]_vars
    /\ [](\A i \in Ids : istate[i] = "finished" => ~errorCh[i])

\* C31 amended: a message of type error is offered to the error channel of
\* every pending waiter and never enters the notification buffer, with or
\* without a waiter; an attempt that waits with the error in its channel, no
\* response in its response channel and a live context fails with that
\* error (otherwise the select may take the response or the context).
C31_ErrorOfferedToWaiters ==
    /\ [][ErrorMessageStep =>
            /\ \A i \in pendingErrors : errorCh'[i]
            /\ pushNotificationChan' = pushNotificationChan /\ enqueued' = enqueued]_vars
    /\ [][(/\ wpc \in {"await", "pawait"} /\ wpc' # wpc
           /\ errorCh[wcur] /\ responseCh[wcur] = NoMsg /\ ictx[wcur] = "live")
            => wres' = "xmpp" /\ wpc' \in {"cleanup", "pcleanup"}]_vars

\* An attempt has failed with the error it was offered, and the buffer is empty.
C31_Witness ==
    /\ wpc \in {"cleanup", "pcleanup"} /\ wres = "xmpp"
    /\ ~errorCh[wcur] /\ pushNotificationChan = <<>> /\ enqueued = <<>>

\* The caller of item i has returned from Submit with its context's error
\* while the worker holds the item (a submitter's item carries its number).
AbandonedInFlight(i) ==
    /\ wcur = i
    /\ \E p \in Submitters : cur[p] = i /\ pc[p] = "ret" /\ ret[p] \in CtxErrs

\* C32: an item abandoned by its caller while the worker holds it is still
\* run to completion and then left; the worker never waits at the delivery
\* of a result (one of the two cases of its select can always be taken); and
\* every item queued behind is started.
C32_AbandonedResultNeverBlocks ==
    /\ [](wpc = "deliver" => ENABLED (WorkerDeliver \/ WorkerDiscard))
    /\ \A i \in Submitters :
          /\ AbandonedInFlight(i) ~> (istate[i] = "finished" /\ wcur # i)
          /\ (istate[i] = "queued") ~> (istate[i] \in {"executing", "finished"})

\* An abandoned item is about to be executed while another item is queued.
C32_Witness ==
    /\ \E i \in Ids : AbandonedInFlight(i) /\ wpc = "exec"
    /\ requestCh # <<>>

\* C33: while a handler that was started has not returned, the subscriber-list
\* lock is not held for reading, the dispatch worker can take the next
\* notification, the receive worker can hand over the message it holds, and a
\* caller of Subscribe can take the lock (unless another Subscribe holds it);
\* and every dispatch starts every handler subscribed at that moment.
C33_HandlerNeverReturningBlocksNothing ==
    /\ [](handlerRunning # {} =>
            /\ eventHandlersMu # "rlocked"
            /\ (nwpc = "run" /\ pushNotificationChan # <<>> /\ eventHandlersMu = "free")
                   => ENABLED PushWorkerDispatch
            /\ rpc = "push" => ENABLED handlePushNotification
            /\ \A h \in Handlers :
                   (spc[h] = "idle" /\ eventHandlersMu = "free") => ENABLED SubscribeLock(h))
    /\ [][dispatched' # dispatched =>
            \A k \in 1..Len(eventHandlers) :
                [seq |-> dispatched'[Len(dispatched')].seq, h |-> eventHandlers[k]]
                    \in handlerRunning']_vars

\* The first handler, started for the first notification, has still not
\* returned; since then the second handler was subscribed and started for the
\* second notification, and a dispatch started two handlers.
C33_Witness ==
    /\ [seq |-> 1, h |-> 1] \in handlerRunning
    /\ [seq |-> 1, h |-> 2] \notin handlerRunning \cup handlerReturned
    /\ [seq |-> 2, h |-> 1] \in handlerRunning \cup handlerReturned
    /\ [seq |-> 2, h |-> 2] \in handlerRunning \cup handlerReturned

\* C34: when Decrypt has decoded its argument, the length after its padding
\* is the next multiple of 8 at or above the decoded length.
C34_PaddedToMultipleOf8 ==
    (codecPc = "received" /\ ciphertext.wellFormed) =>
        /\ PaddedLength(ciphertext) % 8 = 0
        /\ PaddedLength(ciphertext) - DecodedLength(ciphertext) \in 0..7

\* The status line of a response text: its first line, with or without a line
\* terminator, cut into tokens at spaces.
StatusLineTokens(data) ==
    LET text == ReplaceAll(ReplaceAll(data, CREntity, <<"\r">>), <<"\n">>, <<"\r", "\n">>)
    IN SplitN(TrimSpace(ReadString(text, "\n").line), " ", 3)

\* C35: ParseHTTPResponse fails exactly when the status line has fewer than two
\* space-separated tokens or its second token is not an integer.
C35_FailsExactlyOnMalformedStatusLine ==
    codecPc = "parsed" =>
        (extracted.err # "nil" <=>
            \/ Len(StatusLineTokens(httpText)) < 2
            \/ ~AtoiOk(StatusLineTokens(httpText)[2]))

\* The caller of item i has left Submit with its context's error.
GaveUp(i) ==
    \E c \in Callers : cur[c] = i /\ pc[c] \notin {"enq", "wait"} /\ ret[c] \in CtxErrs

\* C36: an item whose caller gave up while it was buffered can be dequeued
\* when it is the oldest; when it is taken out of the buffer its execution
\* begins; and its request is registered as pending, handed to Send, and on
\* the wire when Send succeeds.
C36_GivenUpItemStillExecuted ==
    /\ []((wpc = "select" /\ requestCh # <<>> /\ GaveUp(Head(requestCh)))
             => ENABLED WorkerDequeue)
    /\ [][(requestCh # <<>> /\ requestCh' = Tail(requestCh) /\ GaveUp(Head(requestCh)))
             => /\ wcur' = Head(requestCh)
                /\ istate'[Head(requestCh)] = "executing"
                /\ wpc' \in {"register", "pregister"}]_vars
    /\ [][(GaveUp(wcur) /\ wpc \in {"register", "pregister"} /\ wpc' # wpc)
             => wcur \in pendingRequests' /\ wpc' \in {"send", "psend"}]_vars
    /\ [][(GaveUp(wcur) /\ wpc \in {"send", "psend"} /\ wpc' # wpc)
             => wpc' \in {"sending", "psending"}]_vars
    /\ [][(GaveUp(wcur) /\ wpc \in {"sending", "psending"} /\ wpc' \in {"await", "pawait"})
             => wcur \in wire']_vars

\* The request of an item that its caller gave up in the buffer is registered
\* and on the wire.
C36_Witness ==
    /\ wcur # 0
    /\ GaveUp(wcur)
    /\ wpc \in {"await", "pawait"}
    /\ wcur \in pendingRequests
    /\ wcur \in wire

\* C37: every message that ParseHTTPResponse accepted is either handed to
\* handlePushNotification or placed by notifyResponse in the channel of at
\* least one waiter.
C37_ParsedMessageReachesSomeone ==
    /\ [][(rpc = "classify" /\ rpc' # rpc)
             => rpc' \in {"notify", "push"} /\ rmsg' = rmsg]_vars
    /\ [][(rpc = "notify" /\ rpc' # rpc)
             => \E i \in Ids : responseCh[i] = NoMsg /\ responseCh'[i] = rmsg]_vars

\* C38: a second call of Client.Close completes normally: it does not close
\* pushNotificationChan again (which would panic).
C38_SecondCloseCompletes == cpc # "panicked"

\* C39: whatever MaxRetries the configuration holds, a Get or Put that passed
\* the connection check and returns an error has made at least one attempt,
\* and the error wraps the error of an attempt (never nil).
C39_AtLeastOneAttempt ==
    \A c \in Callers :
        (pc[c] = "done" /\ gerr[c][1] = "failed") =>
            /\ Submitted(c) >= 1
            /\ gerr[c][2] # "nil"

\* C40: a call of Client.Close on a connected client eventually returns.
C40_CloseReturns ==
    (cpc = "cancelled" /\ xmppClient = "set") ~> (qcpc[ClientCloser] = "returned")

====
